---- MODULE Spec2Model ----
(***************************************************************************)
(* Model of openclaw-security-center: the risk scorer of the dashboard     *)
(* (packages/server/src/render.ts), the commands of the CLI                *)
(* (packages/cli/src/cli.ts), the agent's collectors, the store            *)
(* (packages/server/src/db.ts) and the server's request handlers           *)
(* (packages/server/src/index.ts).                                         *)
(*                                                                         *)
(* The specifications share the variables:                                 *)
(*   Spec        the dashboard scoring a snapshot and listing deductions   *)
(*   SpecMonitor `ocsec monitor` over the two most recent stored runs      *)
(*   SpecDiff    `ocsec diff a b` and `ocsec diff b a` over two trees      *)
(*   SpecParse   the parser of the listening-port listing                  *)
(*   SpecCollect the agent gathering host signals and tool results         *)
(*   SpecRemedy  `ocsec plan` and `ocsec apply`                            *)
(*   SpecStore   insertRun, listRuns and getRun over the runs table        *)
(*   SpecWatch   `ocsec monitor` reading its two runs from the store       *)
(*   SpecServer  GET / and POST /api/collect interleaving at their awaits  *)
(***************************************************************************)
EXTENDS Integers, Sequences, FiniteSets, TLC

VARIABLES
    pc,         \* position of the command / handler being modelled
    snap,       \* the snapshot handed to renderDashboard
    scored,     \* what computeRiskScore returned: [score, deductions]
    shown,      \* the list renderRemediations displays
    runs,       \* the rows `monitor` fetched (listRuns(db, 2)), newest first
    alert,      \* the alert object `monitor` prints
    snapA,      \* first argument of `ocsec diff`
    snapB,      \* second argument of `ocsec diff`
    changes,    \* diffDeep(snapA, snapB)
    reverse,    \* diffDeep(snapB, snapA)
    raw,        \* the text handed to parseLsofPorts / parseSsPorts
    ports,      \* the ListeningPort[] the parser returned
    platform,   \* os.platform() of the machine collectAll runs on
    children,   \* how each child process started so far has ended
    openclaw,   \* the results collectOpenClaw has gathered so far
    host,       \* the HostSignals object collectHostSignals is filling
    snapshot,   \* what collectAll returned
    steps,      \* the remediation steps `plan` prints or `apply` walks
    stepIndex,  \* loop index `i` of `apply` (0-based, as in the code)
    asked,      \* the prompts of `apply` so far, each with the answer typed
    executed,   \* the commands `apply` has spawned so far
    rollbackLog, \* rollbackLog of `apply`
    db,         \* the rows of table `runs`, in the order they were inserted
    reply,      \* what the last call of insertRun / listRuns / getRun returned
    requests    \* the GET / and POST /api/collect requests the server holds

parserVars == <<raw, ports>>

agentVars == <<platform, children, openclaw, host, snapshot>>

remedyVars == <<steps, stepIndex, asked, executed, rollbackLog>>

storeVars == <<db, reply, requests>>

vars == <<pc, snap, scored, shown, runs, alert, snapA, snapB, changes, reverse,
          parserVars, agentVars, remedyVars, storeVars>>

\* The variables of a command that is not the one being run keep these values.
ParserIdle == raw = "" /\ ports = <<>>

AgentIdle ==
    /\ platform = "none"
    /\ children = <<>>
    /\ openclaw = <<>>
    /\ host = <<>>
    /\ snapshot = <<>>

RemedyIdle ==
    /\ steps = <<>>
    /\ stepIndex = 0
    /\ asked = <<>>
    /\ executed = <<>>
    /\ rollbackLog = <<>>

NoReply == [op |-> "none"]

StoreIdle == db = <<>> /\ reply = NoReply /\ requests = <<>>

(***************************************************************************)
(* Bounds of the model.                                                    *)
(***************************************************************************)
MaxPortCount == 7       \* longest listening-port list handed to the scorer
MaxTcpLen == 2          \* longest listening-port list of a stored run
MaxArrayLen == 2        \* longest array inside a diffed tree

(***************************************************************************)
(* Data: NormalizedSnapshot (agent types).  An optional field that is      *)
(* missing is "absent": `x?.state` is undefined both when the record and   *)
(* when its state is missing.                                              *)
(***************************************************************************)
SignalStates == {"on", "off", "unknown"}
OptSignalStates == SignalStates \cup {"absent"}

\* CollectorResult as far as the scorer and the monitor read it: `r?.ok`.
\* An absent result reads as ok = undefined (falsy).
CollectorResults ==
    { [present |-> TRUE, ok |-> TRUE],
      [present |-> TRUE, ok |-> FALSE],
      [present |-> FALSE, ok |-> FALSE] }

ListeningPort(n) == [port |-> n, pid |-> n, process |-> "proc"]

\* `x?.ok` as a condition
OkOf(r) == r.present /\ r.ok

\* `snap.host.listening?.tcp ?? []`
TcpOf(s) == IF s.host.listening.present THEN s.host.listening.tcp ELSE <<>>

(***************************************************************************)
(* computeRiskScore, render.ts 14-59.  Each rule updates the running score *)
(* and pushes its deduction, as the code does, in the code's order.        *)
(***************************************************************************)
PortThreshold == 5

Deduct(acc, pts, why) ==
    [score |-> acc.score - pts,
     deductions |-> Append(acc.deductions, [reason |-> why, points |-> -pts])]

\* mutant: a firewall record without a state is read as unknown
FirewallRuleAbsentIsUnknown(s, acc) ==
    IF s.host.firewall = "off" THEN Deduct(acc, 30, "Host firewall is off")
    ELSE IF s.host.firewall \in {"unknown", "absent"}
         THEN Deduct(acc, 15, "Host firewall state unknown")
         ELSE acc

FirewallRule(s, acc) ==
    IF s.host.firewall = "off" THEN Deduct(acc, 30, "Host firewall is off")
    ELSE IF s.host.firewall = "unknown"
         THEN Deduct(acc, 15, "Host firewall state unknown")
         ELSE acc

DiskEncryptionRule(s, acc) ==
    IF s.host.diskEncryption = "off" THEN Deduct(acc, 25, "Disk encryption is off")
    ELSE IF s.host.diskEncryption = "unknown"
         THEN Deduct(acc, 10, "Disk encryption state unknown")
         ELSE acc

\* mutant: the score is lowered by another amount than the deduction pushed
AutoUpdatesRuleSkewed(s, acc) ==
    IF s.host.autoUpdates = "off"
    THEN [score |-> acc.score - 5,
          deductions |-> Append(acc.deductions,
                                [reason |-> "Auto-updates are off", points |-> -15])]
    ELSE IF s.host.autoUpdates = "unknown"
         THEN Deduct(acc, 5, "Auto-updates state unknown")
         ELSE acc

AutoUpdatesRule(s, acc) ==
    IF s.host.autoUpdates = "off" THEN Deduct(acc, 15, "Auto-updates are off")
    ELSE IF s.host.autoUpdates = "unknown"
         THEN Deduct(acc, 5, "Auto-updates state unknown")
         ELSE acc

\* mutant: threshold test off by one (>= instead of >)
PortsRuleAtThreshold(s, acc) ==
    IF Len(TcpOf(s)) >= PortThreshold
    THEN Deduct(acc, 10, ToString(Len(TcpOf(s))) \o " listening ports (>5)")
    ELSE acc

PortsRule(s, acc) ==
    IF Len(TcpOf(s)) > PortThreshold
    THEN Deduct(acc, 10, ToString(Len(TcpOf(s))) \o " listening ports (>5)")
    ELSE acc

SecurityAuditRule(s, acc) ==
    IF ~OkOf(s.openclaw.securityAudit)
    THEN Deduct(acc, 20, "OpenClaw security audit has errors")
    ELSE acc

UpdateStatusRule(s, acc) ==
    IF ~OkOf(s.openclaw.updateStatus)
    THEN Deduct(acc, 5, "OpenClaw update status check failed")
    ELSE acc

Max(a, b) == IF a >= b THEN a ELSE b

\* mutant: the final clamp is forgotten
ClampScoreMissing(n) == n

ClampScore(n) == Max(0, n)

computeRiskScore(s) ==
    LET a0 == [score |-> 100, deductions |-> <<>>]
        a1 == FirewallRule(s, a0)
        a2 == DiskEncryptionRule(s, a1)
        a3 == AutoUpdatesRule(s, a2)
        a4 == PortsRule(s, a3)
        a5 == SecurityAuditRule(s, a4)
        a6 == UpdateStatusRule(s, a5)
    IN  [score |-> ClampScore(a6.score), deductions |-> a6.deductions]

(***************************************************************************)
(* renderRemediations, render.ts 89-103: a copy of the deductions sorted   *)
(* by points ascending (Array.prototype.sort is stable), each shown with   *)
(* its severity bucket.                                                    *)
(***************************************************************************)
RECURSIVE InsertByPoints(_, _)
InsertByPoints(sorted, d) ==
    IF sorted = <<>> THEN <<d>>
    ELSE IF d.points - Head(sorted).points < 0
         THEN <<d>> \o sorted
         ELSE <<Head(sorted)>> \o InsertByPoints(Tail(sorted), d)

\* mutant: the display forgets to sort
SortByPointsMissing(ds) == ds

RECURSIVE SortByPoints(_)
SortByPoints(ds) ==
    IF ds = <<>> THEN <<>>
    ELSE InsertByPoints(SortByPoints(SubSeq(ds, 1, Len(ds) - 1)), ds[Len(ds)])

SeverityOf(points) ==
    IF points <= -25 THEN "high" ELSE IF points <= -10 THEN "medium" ELSE "low"

renderRemediations(ds) ==
    LET sorted == SortByPoints(ds)
    IN  [i \in 1..Len(sorted) |->
            [severity |-> SeverityOf(sorted[i].points),
             reason |-> sorted[i].reason,
             points |-> sorted[i].points]]

(***************************************************************************)
(* The dashboard: renderDashboard(runId, snap) scores the snapshot and     *)
(* lists the deductions (render.ts 107-110, 216).                          *)
(***************************************************************************)
ScorerSnapshots ==
    { [host |-> [firewall |-> fw, diskEncryption |-> de, autoUpdates |-> au,
                 listening |-> l],
       openclaw |-> [securityAudit |-> sa, updateStatus |-> us]] :
        fw \in OptSignalStates, de \in OptSignalStates, au \in OptSignalStates,
        l \in { [present |-> FALSE, tcp |-> <<>>] } \cup
              { [present |-> TRUE, tcp |-> [i \in 1..n |-> ListeningPort(2999 + i)]] :
                    n \in 0..MaxPortCount },
        sa \in CollectorResults, us \in CollectorResults }

NoSnapshot ==
    [host |-> [firewall |-> "absent", diskEncryption |-> "absent",
               autoUpdates |-> "absent", listening |-> [present |-> FALSE, tcp |-> <<>>]],
     openclaw |-> [securityAudit |-> [present |-> FALSE, ok |-> FALSE],
                   updateStatus |-> [present |-> FALSE, ok |-> FALSE]]]

NoScore == [score |-> 100, deductions |-> <<>>]

Init ==
    /\ pc = "start"
    /\ snap \in ScorerSnapshots
    /\ scored = NoScore
    /\ shown = <<>>
    /\ runs = <<>>
    /\ alert = [alert |-> FALSE, reason |-> "none", regressions |-> <<>>]
    /\ snapA = [t |-> "null"]
    /\ snapB = [t |-> "null"]
    /\ changes = <<>>
    /\ reverse = <<>>
    /\ ParserIdle
    /\ AgentIdle
    /\ RemedyIdle
    /\ StoreIdle

RenderDashboard ==
    /\ pc = "start"
    /\ scored' = computeRiskScore(snap)
    /\ shown' = renderRemediations(scored'.deductions)
    /\ pc' = "rendered"
    /\ UNCHANGED <<snap, runs, alert, snapA, snapB, changes, reverse>>
    /\ UNCHANGED parserVars
    /\ UNCHANGED agentVars
    /\ UNCHANGED remedyVars
    /\ UNCHANGED storeVars

Next == RenderDashboard

Spec == Init /\ [][Next]_vars

(***************************************************************************)
(* `ocsec monitor`, cli.ts 371-452.  The command fetches the two most      *)
(* recent runs (newest first), resolves their snapshots and applies a      *)
(* fixed list of regression rules in declaration order.                    *)
(***************************************************************************)
PortUniverse == {80, 4444}

\* `x?.state ?? 'unknown'`
StateOrUnknown(st) == IF st = "absent" THEN "unknown" ELSE st

\* mutant: the previous state is not looked at
LeftOnAnyPrevious(prevState, latestState) == latestState # "on"

\* predicate of the three signal rules:
\* previous.x?.state === 'on' && latest.x?.state !== 'on'
LeftOn(prevState, latestState) == prevState = "on" /\ latestState # "on"

SignalRegression(fieldName, prevState, latestState, sev) ==
    IF LeftOn(prevState, latestState)
    THEN << [field |-> fieldName, was |-> "on",
             now |-> StateOrUnknown(latestState), severity |-> sev] >>
    ELSE <<>>

\* new Set(tcp.map(p => p.port))
PortSet(tcp) == { tcp[i].port : i \in 1..Len(tcp) }

\* mutant: the set is asked for the record instead of its port number, which it
\* never holds, so every current port counts as new
FilterNewByRecord(tcp, prevPorts) == tcp

\* currPorts.filter(p => !prevPorts.has(p.port)), order kept
RECURSIVE FilterNew(_, _)
FilterNew(tcp, prevPorts) ==
    IF tcp = <<>> THEN <<>>
    ELSE IF Head(tcp).port \notin prevPorts
         THEN <<Head(tcp)>> \o FilterNew(Tail(tcp), prevPorts)
         ELSE FilterNew(Tail(tcp), prevPorts)

\* newPorts.map(p => p.port).join(', ')
RECURSIVE JoinPorts(_)
JoinPorts(tcp) ==
    IF tcp = <<>> THEN ""
    ELSE IF Len(tcp) = 1 THEN ToString(tcp[1].port)
         ELSE ToString(tcp[1].port) \o ", " \o JoinPorts(Tail(tcp))

PortsRegression(previous, latest) ==
    LET prevPorts == PortSet(TcpOf(previous))
        currPorts == TcpOf(latest)
        newPorts == FilterNew(currPorts, prevPorts)
    IN  IF Len(newPorts) > 0
        THEN << [field |-> "host.listening.tcp",
                 was |-> ToString(Cardinality(prevPorts)) \o " ports",
                 now |-> ToString(Len(currPorts)) \o " ports (new: "
                            \o JoinPorts(newPorts) \o ")",
                 severity |-> "medium"] >>
        ELSE <<>>

\* mutant: any change of the audit's ok flag is reported, recovery included
AuditRegressionAnyChange(previous, latest) ==
    IF OkOf(previous.openclaw.securityAudit) # OkOf(latest.openclaw.securityAudit)
    THEN << [field |-> "openclaw.securityAudit", was |-> "ok", now |-> "error",
             severity |-> "high"] >>
    ELSE <<>>

\* previous.openclaw.securityAudit?.ok && !latest.openclaw.securityAudit?.ok
AuditRegression(previous, latest) ==
    IF OkOf(previous.openclaw.securityAudit) /\ ~OkOf(latest.openclaw.securityAudit)
    THEN << [field |-> "openclaw.securityAudit", was |-> "ok", now |-> "error",
             severity |-> "high"] >>
    ELSE <<>>

\* mutant: the regressions of severity high are listed before the others
detectRegressionsBySeverity(previous, latest) ==
    SignalRegression("host.firewall", previous.host.firewall,
                     latest.host.firewall, "high")
    \o SignalRegression("host.diskEncryption", previous.host.diskEncryption,
                        latest.host.diskEncryption, "high")
    \o AuditRegression(previous, latest)
    \o SignalRegression("host.autoUpdates", previous.host.autoUpdates,
                        latest.host.autoUpdates, "medium")
    \o PortsRegression(previous, latest)

detectRegressions(previous, latest) ==
    SignalRegression("host.firewall", previous.host.firewall,
                     latest.host.firewall, "high")
    \o SignalRegression("host.diskEncryption", previous.host.diskEncryption,
                        latest.host.diskEncryption, "high")
    \o SignalRegression("host.autoUpdates", previous.host.autoUpdates,
                        latest.host.autoUpdates, "medium")
    \o PortsRegression(previous, latest)
    \o AuditRegression(previous, latest)

\* Lists of at most n port records over PortUniverse in which no port repeats
\* (the port parsers drop a port already seen).
RECURSIVE PortLists(_)
PortLists(n) ==
    IF n = 0 THEN { <<>> }
    ELSE LET shorter == PortLists(n - 1)
         IN  shorter \cup
             { Append(l, ListeningPort(p)) :
                 l \in shorter, p \in PortUniverse } 

NoRepeat(tcp) == \A i, j \in 1..Len(tcp) : tcp[i].port = tcp[j].port => i = j

MonitorSnapshots ==
    { [host |-> [firewall |-> fw, diskEncryption |-> de, autoUpdates |-> au,
                 listening |-> l],
       openclaw |-> [securityAudit |-> sa,
                     updateStatus |-> [present |-> TRUE, ok |-> TRUE]]] :
        fw \in OptSignalStates, de \in OptSignalStates, au \in OptSignalStates,
        l \in { [present |-> FALSE, tcp |-> <<>>] } \cup
              { [present |-> TRUE, tcp |-> tcp] :
                    tcp \in { x \in PortLists(MaxTcpLen) : NoRepeat(x) } },
        sa \in CollectorResults }

NoAlert == [alert |-> FALSE, reason |-> "none", regressions |-> <<>>]

InitMonitor ==
    /\ pc = "start"
    /\ snap = NoSnapshot
    /\ scored = NoScore
    /\ shown = <<>>
    /\ \/ runs = <<>>
       \/ \E latest \in MonitorSnapshots : runs = <<latest>>
       \/ \E latest \in MonitorSnapshots, previous \in MonitorSnapshots :
             runs = <<latest, previous>>
    /\ alert = NoAlert
    /\ snapA = [t |-> "null"]
    /\ snapB = [t |-> "null"]
    /\ changes = <<>>
    /\ reverse = <<>>
    /\ ParserIdle
    /\ AgentIdle
    /\ RemedyIdle
    /\ StoreIdle

\* runs.length < 2: { alert: false, reason: 'insufficient_runs' }
MonitorInsufficient ==
    /\ pc = "start"
    /\ Len(runs) < 2
    /\ alert' = [alert |-> FALSE, reason |-> "insufficient_runs", regressions |-> <<>>]
    /\ pc' = "done"
    /\ UNCHANGED <<snap, scored, shown, runs, snapA, snapB, changes, reverse>>
    /\ UNCHANGED parserVars
    /\ UNCHANGED agentVars
    /\ UNCHANGED remedyVars
    /\ UNCHANGED storeVars

\* mutant: the older of the two runs is taken as latest
MonitorCompareSwapped ==
    /\ pc = "start"
    /\ Len(runs) >= 2
    /\ LET regressions == detectRegressions(runs[1], runs[2])
       IN  alert' = [alert |-> Len(regressions) > 0, reason |-> "compared",
                     regressions |-> regressions]
    /\ pc' = "done"
    /\ UNCHANGED <<snap, scored, shown, runs, snapA, snapB, changes, reverse>>
    /\ UNCHANGED parserVars
    /\ UNCHANGED agentVars
    /\ UNCHANGED remedyVars
    /\ UNCHANGED storeVars

\* latest = runs[0], previous = runs[1]; alert := regressions.length > 0
MonitorCompare ==
    /\ pc = "start"
    /\ Len(runs) >= 2
    /\ LET regressions == detectRegressions(runs[2], runs[1])
       IN  alert' = [alert |-> Len(regressions) > 0, reason |-> "compared",
                     regressions |-> regressions]
    /\ pc' = "done"
    /\ UNCHANGED <<snap, scored, shown, runs, snapA, snapB, changes, reverse>>
    /\ UNCHANGED parserVars
    /\ UNCHANGED agentVars
    /\ UNCHANGED remedyVars
    /\ UNCHANGED storeVars

NextMonitor == MonitorInsufficient \/ MonitorCompare

SpecMonitor == InitMonitor /\ [][NextMonitor]_vars

(***************************************************************************)
(* JSON values as `ocsec diff` sees them after JSON.parse.  An object      *)
(* keeps its keys in insertion order (k) next to its key/value map (v).    *)
(***************************************************************************)
Undef == [t |-> "undefined"]
Null == [t |-> "null"]
Num(n) == [t |-> "number", v |-> n]
Str(s) == [t |-> "string", v |-> s]
Arr(elems) == [t |-> "array", v |-> elems]
EmptyObj == [t |-> "object", k |-> <<>>, v |-> <<>>]
Obj1(k1, v1) == [t |-> "object", k |-> <<k1>>, v |-> (k1 :> v1)]
Obj2(k1, v1, k2, v2) == [t |-> "object", k |-> <<k1, k2>>, v |-> (k1 :> v1) @@ (k2 :> v2)]

IsUndef(x) == x.t = "undefined"

\* typeof x === 'object' && x : arrays and objects, not null
IsObject(x) == x.t \in {"object", "array"}

\* x && typeof x === 'object' ? Object.keys(x) : []
KeysOf(x) ==
    IF x.t = "object" THEN x.k
    ELSE IF x.t = "array" THEN [i \in 1..Len(x.v) |-> ToString(i - 1)]
    ELSE <<>>

\* x?.[k] : own key of an object, index or length of an array, else undefined
Get(x, key) ==
    IF x.t = "object"
    THEN IF key \in DOMAIN x.v THEN x.v[key] ELSE Undef
    ELSE IF x.t = "array"
         THEN IF \E i \in 1..Len(x.v) : ToString(i - 1) = key
              THEN x.v[CHOOSE i \in 1..Len(x.v) : ToString(i - 1) = key]
              ELSE IF key = "length" THEN Num(Len(x.v)) ELSE Undef
         ELSE Undef

\* JSON.stringify
RECURSIVE Stringify(_), StringifyElems(_), StringifyMembers(_, _)
Stringify(x) ==
    CASE x.t = "undefined" -> "undefined"
      [] x.t = "null" -> "null"
      [] x.t = "number" -> ToString(x.v)
      [] x.t = "string" -> "\"" \o x.v \o "\""
      [] x.t = "array" -> "[" \o StringifyElems(x.v) \o "]"
      [] x.t = "object" -> "{" \o StringifyMembers(x, x.k) \o "}"

StringifyElems(elems) ==
    IF elems = <<>> THEN ""
    ELSE Stringify(Head(elems))
            \o (IF Len(elems) > 1 THEN "," \o StringifyElems(Tail(elems)) ELSE "")

StringifyMembers(x, keys) ==
    IF keys = <<>> THEN ""
    ELSE "\"" \o Head(keys) \o "\":" \o Stringify(x.v[Head(keys)])
            \o (IF Len(keys) > 1 THEN "," \o StringifyMembers(x, Tail(keys)) ELSE "")

(***************************************************************************)
(* diffDeep, cli.ts 286-308.                                               *)
(***************************************************************************)
\* new Set([...keysA, ...keysB]) : keysA, then the keys of keysB not yet seen
RECURSIVE AllKeys(_, _)
AllKeys(keysA, keysB) ==
    IF keysB = <<>> THEN keysA
    ELSE IF \E i \in 1..Len(keysA) : keysA[i] = Head(keysB)
         THEN AllKeys(keysA, Tail(keysB))
         ELSE AllKeys(Append(keysA, Head(keysB)), Tail(keysB))

\* prefix ? `${prefix}.${k}` : k
PathOf(prefix, key) == IF prefix = "" THEN key ELSE prefix \o "." \o key

\* mutant: nested values compared by reference (pa !== pb) before descending;
\* two parsed trees never share a reference
ClassifyByReference(pa, pb) ==
    IF IsUndef(pa) /\ ~IsUndef(pb) THEN "added"
    ELSE IF ~IsUndef(pa) /\ IsUndef(pb) THEN "removed"
    ELSE IF IsObject(pa) /\ IsObject(pb) THEN "changed"
    ELSE IF Stringify(pa) # Stringify(pb) THEN "changed"
    ELSE "same"

\* mutant: the first test uses loose equality (pa == undefined), true of null too
ClassifyLooseAdded(pa, pb) ==
    IF (IsUndef(pa) \/ pa.t = "null") /\ ~IsUndef(pb) THEN "added"
    ELSE IF ~IsUndef(pa) /\ IsUndef(pb) THEN "removed"
    ELSE IF IsObject(pa) /\ IsObject(pb) THEN "recurse"
    ELSE IF Stringify(pa) # Stringify(pb) THEN "changed"
    ELSE "same"

\* mutant: arrays are leaves (Array.isArray excluded from the descent)
ClassifyArraysOpaque(pa, pb) ==
    IF IsUndef(pa) /\ ~IsUndef(pb) THEN "added"
    ELSE IF ~IsUndef(pa) /\ IsUndef(pb) THEN "removed"
    ELSE IF pa.t = "object" /\ pb.t = "object" THEN "recurse"
    ELSE IF Stringify(pa) # Stringify(pb) THEN "changed"
    ELSE "same"

\* the if / else-if chain of the loop body
Classify(pa, pb) ==
    IF IsUndef(pa) /\ ~IsUndef(pb) THEN "added"
    ELSE IF ~IsUndef(pa) /\ IsUndef(pb) THEN "removed"
    ELSE IF IsObject(pa) /\ IsObject(pb) THEN "recurse"
    ELSE IF Stringify(pa) # Stringify(pb) THEN "changed"
    ELSE "same"

DiffEntry(p, type, old, new) == [path |-> p, type |-> type, oldValue |-> old, newValue |-> new]

RECURSIVE diffDeep(_, _, _), DiffKeys(_, _, _, _)
diffDeep(a, b, prefix) == DiffKeys(a, b, prefix, AllKeys(KeysOf(a), KeysOf(b)))

DiffKeys(a, b, prefix, keys) ==
    IF keys = <<>> THEN <<>>
    ELSE LET pa == Get(a, Head(keys))
             pb == Get(b, Head(keys))
             p == PathOf(prefix, Head(keys))
             kind == Classify(pa, pb)
             out == CASE kind = "added" -> << DiffEntry(p, "added", Undef, pb) >>
                      [] kind = "removed" -> << DiffEntry(p, "removed", pa, Undef) >>
                      [] kind = "recurse" -> diffDeep(pa, pb, p)
                      [] kind = "changed" -> << DiffEntry(p, "changed", pa, pb) >>
                      [] OTHER -> <<>>
         IN  out \o DiffKeys(a, b, prefix, Tail(keys))

(***************************************************************************)
(* `ocsec diff a b`, cli.ts 242-273, run on two trees and then with the    *)
(* arguments swapped.                                                      *)
(***************************************************************************)
Leaves == { Num(1), Num(2), Null }

\* arrays of at most n elements
RECURSIVE ElemLists(_, _)
ElemLists(elems, n) ==
    IF n = 0 THEN { <<>> }
    ELSE LET shorter == ElemLists(elems, n - 1)
         IN  shorter \cup { Append(l, e) : l \in shorter, e \in elems }

Arrays == { Arr(l) : l \in ElemLists(Leaves \cup {Obj1("a", Num(1))}, MaxArrayLen) }

Nested ==
    { EmptyObj, Obj1("a", Num(1)), Obj1("a", Num(2)),
      Obj2("a", Num(1), "b", Num(2)), Obj2("b", Num(2), "a", Num(1)),
      Obj1("a", Arr(<<Num(1)>>)), Obj1("a", Arr(<<Num(2), Num(1)>>)) }

ValuesA == Leaves \cup {Str("1")} \cup Arrays \cup Nested
ValuesB == { Num(1), Arr(<<Num(1)>>), Obj1("a", Num(1)) }

Trees ==
    { Null, Num(1), EmptyObj }
    \cup { Obj1("a", x) : x \in ValuesA }
    \cup { Obj1("b", y) : y \in ValuesB }
    \cup { Obj2("a", x, "b", y) : x \in ValuesA, y \in ValuesB }

InitDiff ==
    /\ pc = "start"
    /\ snap = NoSnapshot
    /\ scored = NoScore
    /\ shown = <<>>
    /\ runs = <<>>
    /\ alert = NoAlert
    /\ snapA \in Trees
    /\ snapB \in Trees
    /\ changes = <<>>
    /\ reverse = <<>>
    /\ ParserIdle
    /\ AgentIdle
    /\ RemedyIdle
    /\ StoreIdle

Diff ==
    /\ pc = "start"
    /\ changes' = diffDeep(snapA, snapB, "")
    /\ pc' = "diffed"
    /\ UNCHANGED <<snap, scored, shown, runs, alert, snapA, snapB, reverse>>
    /\ UNCHANGED parserVars
    /\ UNCHANGED agentVars
    /\ UNCHANGED remedyVars
    /\ UNCHANGED storeVars

DiffSwapped ==
    /\ pc = "diffed"
    /\ reverse' = diffDeep(snapB, snapA, "")
    /\ pc' = "both"
    /\ UNCHANGED <<snap, scored, shown, runs, alert, snapA, snapB, changes>>
    /\ UNCHANGED parserVars
    /\ UNCHANGED agentVars
    /\ UNCHANGED remedyVars
    /\ UNCHANGED storeVars

NextDiff == Diff \/ DiffSwapped

SpecDiff == InitDiff /\ [][NextDiff]_vars

(***************************************************************************)
(* Port table parsers of the agent (parseLsofPorts, parseSsPorts).  The    *)
(* text is a string; the string methods and regular expressions the        *)
(* parsers use are computed character by character.                        *)
(***************************************************************************)
MaxLines == 3           \* most lines in a listing handed to a parser

Digits == "0123456789"

IsDigit(c) == \E i \in 1..10 : SubSeq(Digits, i, i) = c

DigitValue(c) == (CHOOSE i \in 1..10 : SubSeq(Digits, i, i) = c) - 1

\* \s of a regular expression and of String.prototype.trim
IsSpace(c) == c \in {" ", "\t", "\r", "\n"}

\* s[i]
CharAt(s, i) == SubSeq(s, i, i)

\* s.startsWith(prefix)
StartsWith(s, prefix) == Len(s) >= Len(prefix) /\ SubSeq(s, 1, Len(prefix)) = prefix

RECURSIVE TrimStart(_)
TrimStart(s) == IF s # "" /\ IsSpace(Head(s)) THEN TrimStart(Tail(s)) ELSE s

RECURSIVE TrimEnd(_)
TrimEnd(s) ==
    IF s # "" /\ IsSpace(CharAt(s, Len(s))) THEN TrimEnd(SubSeq(s, 1, Len(s) - 1)) ELSE s

\* s.trim()
Trim(s) == TrimEnd(TrimStart(s))

\* the number of characters of s before its first line feed
RECURSIVE LineLength(_)
LineLength(s) == IF s = "" \/ Head(s) = "\n" THEN 0 ELSE 1 + LineLength(Tail(s))

\* s.split('\n'): the pieces between line feeds; '' splits into ['']
RECURSIVE SplitLines(_)
SplitLines(s) ==
    LET n == LineLength(s)
    IN  IF n = Len(s) THEN <<s>>
        ELSE <<SubSeq(s, 1, n)>> \o SplitLines(SubSeq(s, n + 2, Len(s)))

\* the number of characters of s before its first white space
RECURSIVE WordLength(_)
WordLength(s) == IF s = "" \/ IsSpace(Head(s)) THEN 0 ELSE 1 + WordLength(Tail(s))

\* s.split(/\s+/): the pieces between runs of white space
RECURSIVE SplitSpace(_)
SplitSpace(s) ==
    LET n == WordLength(s)
    IN  IF n = Len(s) THEN <<s>>
        ELSE <<SubSeq(s, 1, n)>> \o SplitSpace(TrimStart(SubSeq(s, n + 1, Len(s))))

\* line.trim().split(/\s+/)
Fields(line) == SplitSpace(Trim(line))

\* the longest run of decimal digits at the start of s
RECURSIVE LeadingDigits(_)
LeadingDigits(s) ==
    IF s # "" /\ IsDigit(Head(s)) THEN Head(s) \o LeadingDigits(Tail(s)) ELSE ""

\* the longest run of decimal digits at the end of s
RECURSIVE TrailingDigits(_)
TrailingDigits(s) ==
    IF s # "" /\ IsDigit(CharAt(s, Len(s)))
    THEN TrailingDigits(SubSeq(s, 1, Len(s) - 1)) \o CharAt(s, Len(s))
    ELSE ""

RECURSIVE DecimalValue(_, _)
DecimalValue(digits, acc) ==
    IF digits = "" THEN acc
    ELSE DecimalValue(Tail(digits), 10 * acc + DigitValue(Head(digits)))

NaN == [t |-> "NaN"]

\* parseInt(s, 10): optional white space, optional sign, then the leading digits
parseInt(s) ==
    LET t == TrimStart(s)
        signed == t # "" /\ Head(t) \in {"+", "-"}
        digits == LeadingDigits(IF signed THEN Tail(t) ELSE t)
    IN  IF digits = "" THEN NaN
        ELSE IF signed /\ Head(t) = "-" THEN Num(0 - DecimalValue(digits, 0))
        ELSE Num(DecimalValue(digits, 0))

NoMatch == [matched |-> FALSE]

\* s.match(/:(\d+)$/): a colon followed by digits up to the end of s
MatchPort(s) ==
    LET digits == TrailingDigits(s)
        before == Len(s) - Len(digits)
    IN  IF digits # "" /\ before >= 1 /\ CharAt(s, before) = ":"
        THEN [matched |-> TRUE, digits |-> digits]
        ELSE NoMatch

\* the longest run of characters other than a double quote at the start of s
RECURSIVE UpToQuote(_)
UpToQuote(s) ==
    IF s # "" /\ Head(s) # "\"" THEN Head(s) \o UpToQuote(Tail(s)) ELSE ""

\* /\("([^"]+)",pid=(\d+)/ tried at the start of s
MatchProcessHere(s) ==
    LET name == UpToQuote(SubSeq(s, 3, Len(s)))
        after == SubSeq(s, 3 + Len(name), Len(s))
        digits == LeadingDigits(SubSeq(after, 7, Len(after)))
    IN  IF StartsWith(s, "(\"") /\ name # "" /\ StartsWith(after, "\",pid=") /\ digits # ""
        THEN [matched |-> TRUE, name |-> name, digits |-> digits]
        ELSE NoMatch

\* s.match(/\("([^"]+)",pid=(\d+)/): the leftmost place where the pattern fits
RECURSIVE MatchProcess(_)
MatchProcess(s) ==
    IF s = "" THEN NoMatch
    ELSE IF MatchProcessHere(s).matched THEN MatchProcessHere(s)
    ELSE MatchProcess(Tail(s))

\* parts.slice(from).join(' ')
RECURSIVE JoinFrom(_, _)
JoinFrom(parts, from) ==
    IF from > Len(parts) THEN ""
    ELSE IF from = Len(parts) THEN parts[from]
    ELSE parts[from] \o " " \o JoinFrom(parts, from + 1)

\* { port, pid, process }
PortRecord(port, pid, process) == [port |-> port, pid |-> pid, process |-> process]

\* `parseInt(parts[1], 10) || null`
PidOrNull(s) == IF parseInt(s) \in {NaN, Num(0)} THEN Null ELSE parseInt(s)

\* mutant: the loop of parseLsofPorts without its `seen` test
RECURSIVE ScanLsofUnseen(_, _, _)
ScanLsofUnseen(lines, seen, results) ==
    IF lines = <<>> THEN results
    ELSE LET line == Head(lines)
             parts == Fields(line)
             portMatch == MatchPort(parts[Len(parts)])
         IN  IF StartsWith(line, "COMMAND") \/ Len(parts) < 9 \/ ~portMatch.matched
             THEN ScanLsofUnseen(Tail(lines), seen, results)
             ELSE ScanLsofUnseen(Tail(lines), seen,
                      Append(results, PortRecord(parseInt(portMatch.digits).v,
                                                 PidOrNull(parts[2]), parts[1])))

\* mutant: the loop of parseLsofPorts without its test of the field count
RECURSIVE ScanLsofAnyField(_, _, _)
ScanLsofAnyField(lines, seen, results) ==
    IF lines = <<>> THEN results
    ELSE LET line == Head(lines)
             parts == Fields(line)
             portMatch == MatchPort(parts[Len(parts)])
         IN  IF StartsWith(line, "COMMAND") \/ ~portMatch.matched
             THEN ScanLsofAnyField(Tail(lines), seen, results)
             ELSE LET port == parseInt(portMatch.digits).v
                  IN  IF port \in seen THEN ScanLsofAnyField(Tail(lines), seen, results)
                      ELSE ScanLsofAnyField(Tail(lines), seen \cup {port},
                               Append(results, PortRecord(port,
                                   IF Len(parts) >= 2 THEN PidOrNull(parts[2]) ELSE Null,
                                   parts[1])))

\* mutant: the loop of parseLsofPorts dropping ports outside 1..65535
RECURSIVE ScanLsofRanged(_, _, _)
ScanLsofRanged(lines, seen, results) ==
    IF lines = <<>> THEN results
    ELSE LET line == Head(lines)
             parts == Fields(line)
             portMatch == MatchPort(parts[Len(parts)])
         IN  IF StartsWith(line, "COMMAND") \/ Len(parts) < 9 \/ ~portMatch.matched
             THEN ScanLsofRanged(Tail(lines), seen, results)
             ELSE LET port == parseInt(portMatch.digits).v
                  IN  IF port \in seen \/ port \notin 1..65535
                      THEN ScanLsofRanged(Tail(lines), seen, results)
                      ELSE ScanLsofRanged(Tail(lines), seen \cup {port},
                               Append(results, PortRecord(port, PidOrNull(parts[2]),
                                                          parts[1])))

\* the loop of parseLsofPorts over the lines still to read
RECURSIVE ScanLsof(_, _, _)
ScanLsof(lines, seen, results) ==
    IF lines = <<>> THEN results
    ELSE LET line == Head(lines)
             parts == Fields(line)
             portMatch == MatchPort(parts[Len(parts)])
         IN  IF StartsWith(line, "COMMAND") \/ Len(parts) < 9 \/ ~portMatch.matched
             THEN ScanLsof(Tail(lines), seen, results)
             ELSE LET port == parseInt(portMatch.digits).v
                  IN  IF port \in seen THEN ScanLsof(Tail(lines), seen, results)
                      ELSE ScanLsof(Tail(lines), seen \cup {port},
                               Append(results, PortRecord(port, PidOrNull(parts[2]),
                                                          parts[1])))

parseLsofPorts(text) == ScanLsof(SplitLines(text), {}, <<>>)

\* the loop of parseSsPorts over the lines still to read
RECURSIVE ScanSs(_, _, _)
ScanSs(lines, seen, results) ==
    IF lines = <<>> THEN results
    ELSE LET line == Head(lines)
             parts == Fields(line)
         IN  IF StartsWith(line, "State") \/ StartsWith(line, "Netid") \/ Len(parts) < 5
             THEN ScanSs(Tail(lines), seen, results)
             ELSE LET portMatch == MatchPort(parts[4])
                  IN  IF ~portMatch.matched THEN ScanSs(Tail(lines), seen, results)
                      ELSE LET port == parseInt(portMatch.digits).v
                               procMatch == MatchProcess(JoinFrom(parts, 6))
                           IN  IF port \in seen THEN ScanSs(Tail(lines), seen, results)
                               ELSE ScanSs(Tail(lines), seen \cup {port},
                                        Append(results,
                                            IF procMatch.matched
                                            THEN PortRecord(port, parseInt(procMatch.digits),
                                                            procMatch.name)
                                            ELSE PortRecord(port, Null, "unknown")))

parseSsPorts(text) == ScanSs(SplitLines(text), {}, <<>>)

\* Lines of `lsof -nP -iTCP -sTCP:LISTEN` and of `ss -ltnp`, well formed and not.
LsofHeader == "COMMAND PID USER FD TYPE DEVICE SIZE/OFF NODE NAME"

SsHeader == "State Recv-Q Send-Q Local Address:Port Peer Address:Port Process"

ListingLines ==
    { LsofHeader,
      "node  123 user 22u IPv4 0x12 0t0  TCP *:3000",
      "nginx 67 root 10u IPv6 0x56 0t0 TCP [::1]:3000",
      "  1 x u 1u IPv4 0x1 0t0 TCP *:0",
      SsHeader,
      "Netid State Recv-Q Send-Q Local Address:Port Peer Address:Port",
      "LISTEN 0 128  0.0.0.0:22 0.0.0.0:* users:((\"sshd\",pid=12,fd=3))",
      "LISTEN 0 128 [::]:22 [::]:* users:((\"dropbear\",pid=0,fd=7))",
      "LISTEN 0 511 *:70000 *:*",
      "LISTEN 0 128 *:22" }

RECURSIVE JoinLines(_)
JoinLines(lines) ==
    IF lines = <<>> THEN ""
    ELSE IF Len(lines) = 1 THEN lines[1]
    ELSE lines[1] \o "\n" \o JoinLines(Tail(lines))

Listings == { JoinLines(ls) : ls \in UNION { [1..n -> ListingLines] : n \in 0..MaxLines } }

InitParse ==
    /\ pc = "start"
    /\ snap = NoSnapshot
    /\ scored = NoScore
    /\ shown = <<>>
    /\ runs = <<>>
    /\ alert = NoAlert
    /\ snapA = [t |-> "null"]
    /\ snapB = [t |-> "null"]
    /\ changes = <<>>
    /\ reverse = <<>>
    /\ raw \in Listings
    /\ ports = <<>>
    /\ AgentIdle
    /\ RemedyIdle
    /\ StoreIdle

ParseLsof ==
    /\ pc = "start"
    /\ ports' = parseLsofPorts(raw)
    /\ pc' = "lsof"
    /\ UNCHANGED <<snap, scored, shown, runs, alert, snapA, snapB, changes, reverse, raw>>
    /\ UNCHANGED agentVars
    /\ UNCHANGED remedyVars
    /\ UNCHANGED storeVars

ParseSs ==
    /\ pc = "start"
    /\ ports' = parseSsPorts(raw)
    /\ pc' = "ss"
    /\ UNCHANGED <<snap, scored, shown, runs, alert, snapA, snapB, changes, reverse, raw>>
    /\ UNCHANGED agentVars
    /\ UNCHANGED remedyVars
    /\ UNCHANGED storeVars

NextParse == ParseLsof \/ ParseSs

SpecParse == InitParse /\ [][NextParse]_vars

(***************************************************************************)
(* The collector of the agent: run, runJson, collectOpenClaw,              *)
(* collectHostSignals and collectAll.  Every `await run(...)` is one step: *)
(* the child process ends in one of the ways listed for its command and    *)
(* the awaiting function stores the result and goes on to its next         *)
(* statement.  collectOpenClaw and collectHostSignals run interleaved      *)
(* under Promise.all.                                                      *)
(***************************************************************************)
reportVars == <<snap, scored, shown, runs, alert, snapA, snapB, changes, reverse>>

ReportIdle ==
    /\ snap = NoSnapshot
    /\ scored = NoScore
    /\ shown = <<>>
    /\ runs = <<>>
    /\ alert = NoAlert
    /\ snapA = [t |-> "null"]
    /\ snapB = [t |-> "null"]
    /\ changes = <<>>
    /\ reverse = <<>>

UpperCase == "ABCDEFGHIJKLMNOPQRSTUVWXYZ"

LowerCase == "abcdefghijklmnopqrstuvwxyz"

\* the lower-case letter of every upper-case letter
LowerOf ==
    [c \in { SubSeq(UpperCase, i, i) : i \in 1..26 } |->
        LET i == CHOOSE i \in 1..26 : SubSeq(UpperCase, i, i) = c
        IN  SubSeq(LowerCase, i, i)]

\* the text in lower case (the `i` flag of the patterns)
RECURSIVE Lower(_)
Lower(s) ==
    IF s = "" THEN ""
    ELSE LET c == Head(s)
         IN  (IF c \in DOMAIN LowerOf THEN LowerOf[c] ELSE c) \o Lower(Tail(s))

\* /pattern/i.test(text) for a pattern of literal characters
Test(pattern, text) ==
    LET t == Lower(text)
        p == Lower(pattern)
    IN  \E i \in 1..(Len(t) - Len(p) + 1) : SubSeq(t, i, i + Len(p) - 1) = p

\* How execFileAsync can settle: resolved with the child's output, or rejected
\* (non-zero exit, command not found, killed at the timeout).
Resolved(stdout, stderr) == [settled |-> "resolved", stdout |-> stdout, stderr |-> stderr]

Rejected(message) == [settled |-> "rejected", message |-> message]

ChildOutcomes(cmd) ==
    CASE cmd = "openclaw security audit" ->
            { Resolved("{}", ""), Resolved("audit: 2 findings", ""), Resolved("", ""),
              Rejected("spawn openclaw ENOENT") }
      [] cmd = "openclaw update status" ->
            { Resolved("up to date", ""), Rejected("Command failed: openclaw update status") }
      [] cmd = "openclaw status" ->
            { Resolved("", "gateway: ok"), Rejected("timed out") }
      [] cmd = "lsof" ->
            { Resolved(LsofHeader \o "\nnode 1 u 2u IPv4 0x1 0t0 TCP *:3000\n", ""),
              Resolved("", ""), Rejected("spawn lsof ENOENT") }
      [] cmd = "socketfilterfw" ->
            { Resolved("Firewall is enabled. (State = 1)", ""),
              Resolved("Firewall is disabled. (State = 0)", ""),
              Resolved("", "usage: socketfilterfw"),
              Rejected("Command failed: Firewall is enabled.") }
      [] cmd = "fdesetup" ->
            { Resolved("FileVault is On.", ""), Resolved("FileVault is Off.", ""),
              Resolved("Encryption in progress", ""),
              Rejected("Command failed: FileVault is Off.") }
      [] cmd = "softwareupdate" ->
            { Resolved("Automatic check is on", ""), Resolved("Automatic check is off", ""),
              Resolved("scheduled", ""), Rejected("Automatic check is on") }
      [] cmd = "tmutil" ->
            { Resolved("Running = 1;", ""), Resolved("Backup idle", ""),
              Rejected("Running") }
      [] cmd = "ss" ->
            { Resolved(SsHeader \o "\nLISTEN 0 128 0.0.0.0:22 0.0.0.0:*", ""),
              Resolved("", ""), Rejected("spawn ss ENOENT") }
      [] cmd = "ufw" ->
            { Resolved("Status: active", ""), Resolved("Status: inactive", ""),
              Resolved("Status: loading", ""), Rejected("Status: active") }
      [] cmd = "lsblk" ->
            { Resolved("sda1 crypt", ""), Rejected("spawn lsblk ENOENT") }
      [] cmd = "systemctl" ->
            { Resolved("enabled", ""), Resolved("static", ""),
              Rejected("Command failed: systemctl\ndisabled"), Rejected("enabled") }

\* [out, err].filter(Boolean).join('\n')
Merged(out, err) ==
    IF out = "" THEN err ELSE IF err = "" THEN out ELSE out \o "\n" \o err

\* run(cmd, args): the CollectorResult of a child that ended as `child`
run(child) ==
    IF child.settled = "resolved"
    THEN [ok |-> TRUE, value |-> Merged(Trim(child.stdout), Trim(child.stderr))]
    ELSE [ok |-> FALSE, error |-> child.message]

\* JSON.parse of a text, as far as the texts of ChildOutcomes need it: the
\* literals, {} and []; anything else is a SyntaxError
JsonParse(text) ==
    LET t == Trim(text)
    IN  CASE t = "null" -> [threw |-> FALSE, value |-> Null]
          [] t = "{}" -> [threw |-> FALSE, value |-> EmptyObj]
          [] t = "[]" -> [threw |-> FALSE, value |-> Arr(<<>>)]
          [] OTHER -> [threw |-> TRUE, message |-> "Unexpected token"]

\* mutant: a text that does not parse is handed on as the failed result
runJsonSilent(child) ==
    LET res == run(child)
        parsed == JsonParse(IF res.value = "" THEN "null" ELSE res.value)
    IN  IF ~res.ok THEN res
        ELSE IF parsed.threw
             THEN [ok |-> FALSE, meta |-> [raw |-> res.value]]
             ELSE [ok |-> TRUE, value |-> parsed.value]

\* runJson(cmd, args)
runJson(child) ==
    LET res == run(child)
        parsed == JsonParse(IF res.value = "" THEN "null" ELSE res.value)
    IN  IF ~res.ok THEN res
        ELSE IF parsed.threw
             THEN [ok |-> FALSE, error |-> "Failed to parse JSON: " \o parsed.message,
                   meta |-> [raw |-> res.value]]
             ELSE [ok |-> TRUE, value |-> parsed.value]

\* the invocations collectOpenClaw awaits, in order, with the key each fills
OpenClawCommands ==
    << [key |-> "securityAudit", cmd |-> "openclaw security audit"],
       [key |-> "updateStatus", cmd |-> "openclaw update status"],
       [key |-> "statusDeep", cmd |-> "openclaw status"] >>

\* mutant: the Linux branch without its unattended-upgrades invocation
HostCommandsNoUpdates(os) ==
    IF os = "darwin"
    THEN << [key |-> "listening", cmd |-> "lsof"],
            [key |-> "firewall", cmd |-> "socketfilterfw"],
            [key |-> "diskEncryption", cmd |-> "fdesetup"],
            [key |-> "autoUpdates", cmd |-> "softwareupdate"],
            [key |-> "backups", cmd |-> "tmutil"] >>
    ELSE << [key |-> "listening", cmd |-> "ss"],
            [key |-> "firewall", cmd |-> "ufw"],
            [key |-> "diskEncryption", cmd |-> "lsblk"] >>

\* the invocations collectHostSignals awaits, in order, with the key each fills
HostCommands(os) ==
    IF os = "darwin"
    THEN << [key |-> "listening", cmd |-> "lsof"],
            [key |-> "firewall", cmd |-> "socketfilterfw"],
            [key |-> "diskEncryption", cmd |-> "fdesetup"],
            [key |-> "autoUpdates", cmd |-> "softwareupdate"],
            [key |-> "backups", cmd |-> "tmutil"] >>
    ELSE << [key |-> "listening", cmd |-> "ss"],
            [key |-> "firewall", cmd |-> "ufw"],
            [key |-> "diskEncryption", cmd |-> "lsblk"],
            [key |-> "autoUpdates", cmd |-> "systemctl"] >>

\* `res.value || ''`
ValueOrEmpty(res) == IF "value" \in DOMAIN res THEN res.value ELSE ""

\* `res.ok ? res.value : res.error`
RawOf(res) == IF res.ok THEN res.value ELSE res.error

\* the state a signal's rule reads out of the text of a successful result
TextState(cmd, text) ==
    CASE cmd = "socketfilterfw" ->
            IF Test("enabled", text) THEN "on"
            ELSE IF Test("disabled", text) THEN "off" ELSE "unknown"
      [] cmd = "fdesetup" ->
            IF Test("FileVault is On", text) THEN "on"
            ELSE IF Test("Off", text) THEN "off" ELSE "unknown"
      [] cmd = "softwareupdate" ->
            IF Test("on", text) THEN "on"
            ELSE IF Test("off", text) THEN "off" ELSE "unknown"
      [] cmd = "tmutil" -> IF Test("Running", text) THEN "on" ELSE "unknown"
      [] cmd = "ufw" ->
            IF Test("Status: active", text) THEN "on"
            ELSE IF Test("inactive", text) THEN "off" ELSE "unknown"
      [] cmd = "lsblk" -> "unknown"
      [] cmd = "systemctl" -> IF Test("enabled", text) THEN "on" ELSE "off"

\* mutant: the rules applied to whatever text the invocation left
SignalStateOfRaw(cmd, res) == TextState(cmd, RawOf(res))

\* mutant: a signal read after some invocation has failed is unknown
SignalStateAfterFailure(cmd, res) ==
    IF \E c \in DOMAIN children : children[c].settled = "rejected" THEN "unknown"
    ELSE IF cmd = "lsblk" THEN "unknown"
    ELSE IF res.ok THEN TextState(cmd, ValueOrEmpty(res)) ELSE "unknown"

\* `state: res.ok ? <rule> : 'unknown'` (lsblk: `state: 'unknown'`)
SignalState(cmd, res) ==
    IF cmd = "lsblk" THEN "unknown"
    ELSE IF res.ok THEN TextState(cmd, ValueOrEmpty(res)) ELSE "unknown"

\* what collectHostSignals stores under the key of an invocation
HostSlot(cmd, res) ==
    CASE cmd = "lsof" ->
            [tcp |-> IF res.ok /\ res.value # "" THEN parseLsofPorts(res.value) ELSE <<>>,
             raw |-> IF res.ok THEN res.value
                     ELSE IF res.error # "" THEN "ERROR: " \o res.error ELSE Undef]
      [] cmd = "ss" ->
            [tcp |-> IF res.ok /\ res.value # "" THEN parseSsPorts(res.value) ELSE <<>>,
             raw |-> RawOf(res)]
      [] OTHER -> [state |-> SignalState(cmd, res), raw |-> RawOf(res)]

Platforms == {"darwin", "linux", "win32"}

InitCollect ==
    /\ pc = "collecting"
    /\ ReportIdle
    /\ ParserIdle
    /\ platform \in Platforms
    /\ children = <<>>
    /\ openclaw = <<>>
    /\ host = [os |-> [platform |-> platform]]
    /\ snapshot = <<>>
    /\ RemedyIdle
    /\ StoreIdle

\* collectOpenClaw: the invocation it awaits settles and fills its key
OpenClawStep ==
    /\ pc = "collecting"
    /\ \E n \in 1..Len(OpenClawCommands) :
          LET c == OpenClawCommands[n]
          IN  /\ c.key \notin DOMAIN openclaw
              /\ \A m \in 1..(n - 1) : OpenClawCommands[m].key \in DOMAIN openclaw
              /\ \E child \in ChildOutcomes(c.cmd) :
                    /\ children' = children @@ (c.cmd :> child)
                    /\ openclaw' = openclaw @@
                          (c.key :> IF c.key = "securityAudit" THEN runJson(child)
                                    ELSE run(child))
    /\ UNCHANGED <<pc, platform, host, snapshot>>
    /\ UNCHANGED reportVars
    /\ UNCHANGED parserVars
    /\ UNCHANGED remedyVars
    /\ UNCHANGED storeVars

\* mutant: an invocation that fails also drops the slots written before it
HostStepClobbering ==
    /\ pc = "collecting"
    /\ \E n \in 1..Len(HostCommands(platform)) :
          LET c == HostCommands(platform)[n]
          IN  /\ c.key \notin DOMAIN host
              /\ \A m \in 1..(n - 1) : HostCommands(platform)[m].key \in DOMAIN host
              /\ \E child \in ChildOutcomes(c.cmd) :
                    /\ children' = children @@ (c.cmd :> child)
                    /\ host' = (IF child.settled = "rejected"
                                THEN [k \in DOMAIN host |->
                                        IF k = "os" THEN host[k]
                                        ELSE HostSlot(HostCommands(platform)[
                                                CHOOSE m \in 1..Len(HostCommands(platform)) :
                                                    HostCommands(platform)[m].key = k].cmd,
                                                run(child))]
                                ELSE host) @@ (c.key :> HostSlot(c.cmd, run(child)))
    /\ UNCHANGED <<pc, platform, openclaw, snapshot>>
    /\ UNCHANGED reportVars
    /\ UNCHANGED parserVars
    /\ UNCHANGED remedyVars
    /\ UNCHANGED storeVars

\* collectHostSignals: the invocation it awaits settles and fills its key
HostStep ==
    /\ pc = "collecting"
    /\ \E n \in 1..Len(HostCommands(platform)) :
          LET c == HostCommands(platform)[n]
          IN  /\ c.key \notin DOMAIN host
              /\ \A m \in 1..(n - 1) : HostCommands(platform)[m].key \in DOMAIN host
              /\ \E child \in ChildOutcomes(c.cmd) :
                    /\ children' = children @@ (c.cmd :> child)
                    /\ host' = host @@ (c.key :> HostSlot(c.cmd, run(child)))
    /\ UNCHANGED <<pc, platform, openclaw, snapshot>>
    /\ UNCHANGED reportVars
    /\ UNCHANGED parserVars
    /\ UNCHANGED remedyVars
    /\ UNCHANGED storeVars

\* mutant: a rejected invocation rejects collectAll instead of being caught
CollectAllReturnUnlessRejected ==
    /\ pc = "collecting"
    /\ \A n \in 1..Len(OpenClawCommands) : OpenClawCommands[n].key \in DOMAIN openclaw
    /\ \A n \in 1..Len(HostCommands(platform)) :
          HostCommands(platform)[n].key \in DOMAIN host
    /\ \A cmd \in DOMAIN children : children[cmd].settled = "resolved"
    /\ snapshot' = [collectedAt |-> "now", openclaw |-> openclaw, host |-> host]
    /\ pc' = "returned"
    /\ UNCHANGED <<platform, children, openclaw, host>>
    /\ UNCHANGED reportVars
    /\ UNCHANGED parserVars
    /\ UNCHANGED remedyVars
    /\ UNCHANGED storeVars

\* collectAll: Promise.all has both results; the snapshot is returned
CollectAllReturn ==
    /\ pc = "collecting"
    /\ \A n \in 1..Len(OpenClawCommands) : OpenClawCommands[n].key \in DOMAIN openclaw
    /\ \A n \in 1..Len(HostCommands(platform)) :
          HostCommands(platform)[n].key \in DOMAIN host
    /\ snapshot' = [collectedAt |-> "now", openclaw |-> openclaw, host |-> host]
    /\ pc' = "returned"
    /\ UNCHANGED <<platform, children, openclaw, host>>
    /\ UNCHANGED reportVars
    /\ UNCHANGED parserVars
    /\ UNCHANGED remedyVars
    /\ UNCHANGED storeVars

NextCollect == OpenClawStep \/ HostStep \/ CollectAllReturn

SpecCollect == InitCollect /\ [][NextCollect]_vars

\* Every await settles (each child is bounded by its timeout) and the event
\* loop runs every continuation that is ready.
SpecCollectFair == SpecCollect /\ WF_vars(NextCollect)

(***************************************************************************)
(* `ocsec plan` and `ocsec apply`, cli.ts 59-232.  Both start from the     *)
(* snapshot collectAll returns; of it they read host.os.platform and the   *)
(* states of firewall, autoUpdates and diskEncryption.                     *)
(***************************************************************************)
\* the hosts collectHostSignals can return, restricted to the entries read
CollectedHosts ==
    { [os |-> [platform |-> "darwin"]]
        @@ ("firewall" :> HostSlot("socketfilterfw", run(fw)))
        @@ ("diskEncryption" :> HostSlot("fdesetup", run(de)))
        @@ ("autoUpdates" :> HostSlot("softwareupdate", run(au))) :
          fw \in ChildOutcomes("socketfilterfw"), de \in ChildOutcomes("fdesetup"),
          au \in ChildOutcomes("softwareupdate") }
    \cup
    { [os |-> [platform |-> os]]
        @@ ("firewall" :> HostSlot("ufw", run(fw)))
        @@ ("diskEncryption" :> HostSlot("lsblk", run(de)))
        @@ ("autoUpdates" :> HostSlot("systemctl", run(au))) :
          os \in Platforms \ {"darwin"}, fw \in ChildOutcomes("ufw"),
          de \in ChildOutcomes("lsblk"), au \in ChildOutcomes("systemctl") }

\* `snap.host.<signal>?.state`
StateOf(s, key) == IF key \in DOMAIN s.host THEN s.host[key].state ELSE "absent"

\* mutant: a step is also planned for a signal whose state is unknown
NeedsOffOrUnknown(s, key) == StateOf(s, key) \in {"off", "unknown"}

\* `snap.host.<signal>?.state === 'off'`
Needs(s, key) == StateOf(s, key) = "off"

\* `if (...) steps.push(step)`
PushIf(cond, step) == IF cond THEN <<step>> ELSE <<>>

\* `snap.host.os.platform === 'darwin' ? a : b`
OnDarwin(s, a, b) == IF s.host["os"].platform = "darwin" THEN a ELSE b

\* the steps array of the plan action (the back quotes of the first rollback
\* text are written as single quotes)
PlanSteps(s) ==
    << [title |-> "Tighten OpenClaw defaults (safe fix)",
        command |-> "openclaw security audit --fix",
        rollback |-> "Re-run 'openclaw security audit --deep' to confirm; revert config manually if needed.",
        notes |-> "This only affects OpenClaw config/file permissions. It does NOT change firewall/SSH/OS updates."] >>
    \o PushIf(Needs(s, "firewall"),
          [title |-> "Enable host firewall (recommended)",
           command |-> OnDarwin(s,
               "sudo /usr/libexec/ApplicationFirewall/socketfilterfw --setglobalstate on",
               "sudo ufw enable"),
           rollback |-> OnDarwin(s,
               "sudo /usr/libexec/ApplicationFirewall/socketfilterfw --setglobalstate off",
               "sudo ufw disable")])
    \o PushIf(Needs(s, "autoUpdates"),
          [title |-> "Enable automatic OS updates",
           command |-> OnDarwin(s, "sudo softwareupdate --schedule on",
                                "sudo dpkg-reconfigure -plow unattended-upgrades"),
           rollback |-> OnDarwin(s, "sudo softwareupdate --schedule off",
                                 "sudo dpkg-reconfigure unattended-upgrades")])
    \o PushIf(Needs(s, "diskEncryption"),
          [title |-> "Enable disk encryption",
           command |-> OnDarwin(s, "sudo fdesetup enable",
               "echo \"LUKS encryption must be configured manually for existing volumes\""),
           rollback |-> OnDarwin(s, "sudo fdesetup disable",
               "echo \"LUKS decryption requires manual steps\""),
           notes |-> "Disk encryption on existing Linux volumes requires careful planning."])

\* `steps.map((s, i) => ({ n: i + 1, ...s }))`
Numbered(list) == [k \in 1..Len(list) |-> [n |-> k] @@ list[k]]

\* the steps array of the apply action
ApplySteps(s) ==
    << [title |-> "Tighten OpenClaw defaults (safe fix)",
        command |-> "openclaw security audit --fix",
        rollback |-> "Re-run 'openclaw security audit --deep' to confirm; revert config manually if needed.",
        notes |-> "This only affects OpenClaw config/file permissions."] >>
    \o PushIf(Needs(s, "firewall"),
          [title |-> "Enable host firewall",
           command |-> OnDarwin(s,
               "sudo /usr/libexec/ApplicationFirewall/socketfilterfw --setglobalstate on",
               "sudo ufw enable"),
           rollback |-> OnDarwin(s,
               "sudo /usr/libexec/ApplicationFirewall/socketfilterfw --setglobalstate off",
               "sudo ufw disable")])
    \o PushIf(Needs(s, "autoUpdates"),
          [title |-> "Enable automatic OS updates",
           command |-> OnDarwin(s, "sudo softwareupdate --schedule on",
                                "sudo dpkg-reconfigure -plow unattended-upgrades"),
           rollback |-> OnDarwin(s, "sudo softwareupdate --schedule off",
                                 "sudo dpkg-reconfigure unattended-upgrades")])

\* what the user may type at a prompt of apply
Answers == {"y", " YES ", "n", "", "yes please", "abort", "A"}

\* mutant: every answer but an abort confirms the step
DecisionUnlessAbort(answer) ==
    IF Lower(Trim(answer)) \in {"abort", "a"} THEN "abort" ELSE "run"

\* mutant: only the full word aborts
DecisionAbortWord(answer) ==
    LET choice == Lower(Trim(answer))
    IN  IF choice = "abort" THEN "abort"
        ELSE IF choice # "y" /\ choice # "yes" THEN "skip"
        ELSE "run"

\* the branch of the loop body `choice = answer.trim().toLowerCase()` selects
Decision(answer) ==
    LET choice == Lower(Trim(answer))
    IN  IF choice = "abort" \/ choice = "a" THEN "abort"
        ELSE IF choice # "y" /\ choice # "yes" THEN "skip"
        ELSE "run"

\* rollbackLog.push({ step: i + 1, title, rollback, status })
LogEntry(step, status) ==
    [step |-> stepIndex + 1, title |-> step.title, rollback |-> step.rollback,
     status |-> status]

\* `i++` and the loop test `i < steps.length`
NextStep ==
    /\ stepIndex' = stepIndex + 1
    /\ pc' = IF stepIndex + 1 < Len(steps) THEN "prompt" ELSE "done"

InitRemedy ==
    /\ pc = "start"
    /\ ReportIdle
    /\ ParserIdle
    /\ \E h \in CollectedHosts :
          /\ snapshot = [collectedAt |-> "now", host |-> h]
          /\ platform = h["os"].platform
    /\ children = <<>>
    /\ openclaw = <<>>
    /\ host = <<>>
    /\ RemedyIdle
    /\ StoreIdle

\* plan: build the steps and print them numbered
Plan ==
    /\ pc = "start"
    /\ steps' = Numbered(PlanSteps(snapshot))
    /\ pc' = "planned"
    /\ UNCHANGED <<stepIndex, asked, executed, rollbackLog>>
    /\ UNCHANGED <<reportVars, parserVars, agentVars>>
    /\ UNCHANGED storeVars

\* apply: build the steps; with none there is nothing to ask
ApplyStart ==
    /\ pc = "start"
    /\ steps' = ApplySteps(snapshot)
    /\ pc' = IF Len(steps') = 0 THEN "done" ELSE "prompt"
    /\ UNCHANGED <<stepIndex, asked, executed, rollbackLog>>
    /\ UNCHANGED <<reportVars, parserVars, agentVars>>
    /\ UNCHANGED storeVars

\* apply: the user answers the prompt of step i; the loop body runs up to its
\* break, its continue or the spawn of the step's command
Answer ==
    /\ pc = "prompt"
    /\ \E answer \in Answers :
          LET step == steps[stepIndex + 1]
          IN  /\ asked' = Append(asked, [step |-> stepIndex + 1, answer |-> answer])
              /\ CASE Decision(answer) = "abort" ->
                        /\ rollbackLog' = Append(rollbackLog, LogEntry(step, "skipped"))
                        /\ pc' = "done"
                        /\ UNCHANGED <<stepIndex, executed>>
                   [] Decision(answer) = "skip" ->
                        /\ rollbackLog' = Append(rollbackLog, LogEntry(step, "skipped"))
                        /\ NextStep
                        /\ UNCHANGED executed
                   [] Decision(answer) = "run" ->
                        /\ executed' = Append(executed,
                               [step |-> stepIndex + 1, command |-> step.command])
                        /\ pc' = "running"
                        /\ UNCHANGED <<stepIndex, rollbackLog>>
    /\ UNCHANGED steps
    /\ UNCHANGED <<reportVars, parserVars, agentVars>>
    /\ UNCHANGED storeVars

\* mutant: a command that exits with a code other than 0 is logged as skipped
CommandExitFailedIsSkipped ==
    /\ pc = "running"
    /\ \E exitCode \in {0, 1} :
          /\ executed' = [executed EXCEPT ![Len(executed)] = @ @@ [exitCode |-> exitCode]]
          /\ rollbackLog' = Append(rollbackLog,
                LogEntry(steps[stepIndex + 1],
                         IF exitCode = 0 THEN "applied" ELSE "skipped"))
    /\ NextStep
    /\ UNCHANGED <<steps, asked>>
    /\ UNCHANGED <<reportVars, parserVars, agentVars>>
    /\ UNCHANGED storeVars

\* apply: the spawned command exits (or fails to spawn: code 1); the step is
\* logged as applied in both branches of `exitCode === 0`
CommandExit ==
    /\ pc = "running"
    /\ \E exitCode \in {0, 1} :
          executed' = [executed EXCEPT ![Len(executed)] = @ @@ [exitCode |-> exitCode]]
    /\ rollbackLog' = Append(rollbackLog, LogEntry(steps[stepIndex + 1], "applied"))
    /\ NextStep
    /\ UNCHANGED <<steps, asked>>
    /\ UNCHANGED <<reportVars, parserVars, agentVars>>
    /\ UNCHANGED storeVars

NextRemedy == Plan \/ ApplyStart \/ Answer \/ CommandExit

SpecRemedy == InitRemedy /\ [][NextRemedy]_vars

(***************************************************************************)
(* The run store, db.ts (index.ts 53-95): table `runs` with primary key    *)
(* id and the three statements insertRun, listRuns and getRun.             *)
(***************************************************************************)
MaxRuns == 3            \* most rows the table holds

\* the days (of January 2025) on which a snapshot can have been collected
Days == {2, 9, 10}

\* String(d).padStart(2, '0')
Pad2(d) == (IF d < 10 THEN "0" ELSE "") \o ToString(d)

\* new Date().toISOString() at midnight of a day
IsoDate(d) == "2025-01-" \o Pad2(d) \o "T00:00:00.000Z"

\* the characters of an ISO date in the order of their codes
CodeOrder == "-.0123456789:TZ"

CodeRank(c) == CHOOSE i \in 1..Len(CodeOrder) : SubSeq(CodeOrder, i, i) = c

\* SQLite's comparison of two TEXT values (BINARY collation): -1, 0 or 1
RECURSIVE TextCompare(_, _)
TextCompare(a, b) ==
    IF a = "" THEN (IF b = "" THEN 0 ELSE -1)
    ELSE IF b = "" THEN 1
    ELSE IF Head(a) = Head(b) THEN TextCompare(Tail(a), Tail(b))
    ELSE IF CodeRank(Head(a)) < CodeRank(Head(b)) THEN -1 ELSE 1

\* the ids crypto.randomUUID() hands out, by the order in which it does
RunId(i) == "run-" \o ToString(i)

RunIds == { RunId(i) : i \in 1..(MaxRuns + 1) }

\* the snapshots stored
StoreSnapshots == { EmptyObj, Obj1("a", Num(1)) }

\* the row of a run: (r.id, r.collectedAt, JSON.stringify(r.snapshot))
RunRow(r) ==
    [id |-> r.id, collectedAt |-> r.collectedAt, snapshotJson |-> Stringify(r.snapshot)]

HasRun(table, id) == \E i \in 1..Len(table) : table[i].id = id

\* INSERT INTO runs: the primary key rejects an id the table holds
insertRun(table, r) ==
    IF HasRun(table, r.id)
    THEN [threw |-> TRUE, table |-> table]
    ELSE [threw |-> FALSE, table |-> Append(table, RunRow(r))]

\* the orders in which ORDER BY collectedAt DESC can return the rows: rows
\* with equal collectedAt come in an order SQLite does not specify
OrderedByCollectedAtDesc(table) ==
    { [i \in 1..Len(table) |-> table[p[i]]] :
        p \in { q \in [1..Len(table) -> 1..Len(table)] :
                  /\ \A i, j \in 1..Len(table) : q[i] = q[j] => i = j
                  /\ \A i \in 1..(Len(table) - 1) :
                        TextCompare(table[q[i]].collectedAt,
                                    table[q[i + 1]].collectedAt) >= 0 } }

\* LIMIT ?: a negative limit is no limit
Limit(rows, limit) ==
    IF limit < 0 \/ limit >= Len(rows) THEN rows ELSE SubSeq(rows, 1, limit)

\* mutant: the rows in the order of the table
listRunsUnordered(table, limit) == { Limit(table, limit) }

\* SELECT ... FROM runs ORDER BY collectedAt DESC LIMIT ?: the arrays it can return
listRuns(table, limit) == { Limit(rows, limit) : rows \in OrderedByCollectedAtDesc(table) }

\* SELECT ... FROM runs WHERE id = ?: the row, or undefined
getRun(table, id) ==
    IF HasRun(table, id)
    THEN table[CHOOSE i \in 1..Len(table) : table[i].id = id]
    ELSE Undef

\* the limits listRuns is called with
Limits == -1..MaxRuns

InitStore ==
    /\ pc = "store"
    /\ ReportIdle
    /\ ParserIdle
    /\ AgentIdle
    /\ RemedyIdle
    /\ db = <<>>
    /\ reply = NoReply
    /\ requests = <<>>

\* insertRun(db, { id, collectedAt, snapshot }) under a fresh id or one in use
InsertRun ==
    /\ pc = "store"
    /\ Len(db) < MaxRuns
    /\ \E n \in 1..(Len(db) + 1), day \in Days, s \in StoreSnapshots :
          LET r == [id |-> RunId(n), collectedAt |-> IsoDate(day), snapshot |-> s]
              done == insertRun(db, r)
          IN  /\ db' = done.table
              /\ reply' = [op |-> "insertRun", run |-> r, threw |-> done.threw]
    /\ UNCHANGED <<pc, requests>>
    /\ UNCHANGED reportVars
    /\ UNCHANGED parserVars
    /\ UNCHANGED agentVars
    /\ UNCHANGED remedyVars

\* listRuns(db, limit)
ListRuns ==
    /\ pc = "store"
    /\ \E limit \in Limits :
          \E rows \in listRuns(db, limit) :
              reply' = [op |-> "listRuns", limit |-> limit, rows |-> rows]
    /\ UNCHANGED <<pc, db, requests>>
    /\ UNCHANGED reportVars
    /\ UNCHANGED parserVars
    /\ UNCHANGED agentVars
    /\ UNCHANGED remedyVars

\* getRun(db, id)
GetRun ==
    /\ pc = "store"
    /\ \E id \in RunIds : reply' = [op |-> "getRun", id |-> id, row |-> getRun(db, id)]
    /\ UNCHANGED <<pc, db, requests>>
    /\ UNCHANGED reportVars
    /\ UNCHANGED parserVars
    /\ UNCHANGED agentVars
    /\ UNCHANGED remedyVars

NextStore == InsertRun \/ ListRuns \/ GetRun

SpecStore == InitStore /\ [][NextStore]_vars

(***************************************************************************)
(* `ocsec monitor` over the run store, cli.ts 371-406: the two most recent *)
(* rows are listed (GET /api/runs?limit=2 or listRuns(db, 2)) and each is   *)
(* resolved to its snapshot (resolveSnapshot, cli.ts 310-347).             *)
(***************************************************************************)
\* the snapshots in the store: JSON values with or without a firewall record
WatchTrees ==
    { Obj1("host", EmptyObj) } \cup
    { Obj1("host", Obj1("firewall", Obj1("state", Str(st)))) : st \in SignalStates }

\* JSON.parse of a text JSON.stringify wrote for one of the snapshots
ParseSnapshot(text) == CHOOSE tree \in WatchTrees : Stringify(tree) = text

\* `snapshot.host.<signal>?.state` of a parsed snapshot
StateIn(tree, signal) ==
    LET record == Get(Get(tree, "host"), signal)
    IN  IF IsUndef(record) \/ IsUndef(Get(record, "state")) THEN "absent"
        ELSE Get(record, "state").v

\* the parsed snapshot as the regression rules read it
ReadSnapshot(tree) ==
    [host |-> [firewall |-> StateIn(tree, "firewall"),
               diskEncryption |-> StateIn(tree, "diskEncryption"),
               autoUpdates |-> StateIn(tree, "autoUpdates"),
               listening |-> [present |-> FALSE, tcp |-> <<>>]],
     openclaw |-> [securityAudit |-> [present |-> FALSE, ok |-> FALSE],
                   updateStatus |-> [present |-> FALSE, ok |-> FALSE]]]

\* resolveSnapshot(id): JSON.parse(getRun(db, id).snapshotJson)
resolveSnapshot(table, id) == ReadSnapshot(ParseSnapshot(getRun(table, id).snapshotJson))

\* the tables a sequence of insertRun calls leaves
WatchTables ==
    UNION { { [i \in 1..n |-> RunRow([id |-> RunId(i), collectedAt |-> IsoDate(d[i]),
                                      snapshot |-> t[i]])] :
                d \in [1..n -> Days], t \in [1..n -> WatchTrees] } : n \in 0..MaxRuns }

InitWatch ==
    /\ pc = "fetch"
    /\ ReportIdle
    /\ ParserIdle
    /\ AgentIdle
    /\ RemedyIdle
    /\ db \in WatchTables
    /\ reply = NoReply
    /\ requests = <<>>

\* the latest two runs are listed and resolved
MonitorFetch ==
    /\ pc = "fetch"
    /\ \E rows \in listRuns(db, 2) :
          /\ reply' = [op |-> "listRuns", limit |-> 2, rows |-> rows]
          /\ runs' = [i \in 1..Len(rows) |-> resolveSnapshot(db, rows[i].id)]
    /\ pc' = "start"
    /\ UNCHANGED <<snap, scored, shown, alert, snapA, snapB, changes, reverse>>
    /\ UNCHANGED <<db, requests>>
    /\ UNCHANGED parserVars
    /\ UNCHANGED agentVars
    /\ UNCHANGED remedyVars

NextWatch == MonitorFetch \/ MonitorInsufficient \/ MonitorCompare

SpecWatch == InitWatch /\ [][NextWatch]_vars

(***************************************************************************)
(* Claims about the scorer (checked under Spec).                           *)
(***************************************************************************)
RECURSIVE SumPoints(_)
SumPoints(ds) == IF ds = <<>> THEN 0 ELSE Head(ds).points + SumPoints(Tail(ds))

Rendered == pc = "rendered"

\* C1: for every snapshot the score returned is an integer with 0 <= score <= 100.
C1_ScoreInRange == Rendered => scored.score \in 0..100

\* C1 witness: the all-bad snapshot, whose deductions add up to less than -100.
C1_Witness ==
    /\ Rendered
    /\ 100 + SumPoints(scored.deductions) < 0
    /\ scored.score = 0

\* Which rule a returned deduction belongs to, read off its reason text.
PortReasons == { ToString(n) \o " listening ports (>5)" : n \in 0..(MaxPortCount + 1) }

RuleOf(d) ==
    CASE d.reason \in {"Host firewall is off", "Host firewall state unknown"} -> "firewall"
      [] d.reason \in {"Disk encryption is off", "Disk encryption state unknown"} -> "diskEncryption"
      [] d.reason \in {"Auto-updates are off", "Auto-updates state unknown"} -> "autoUpdates"
      [] d.reason \in PortReasons -> "ports"
      [] d.reason = "OpenClaw security audit has errors" -> "securityAudit"
      [] d.reason = "OpenClaw update status check failed" -> "updateStatus"
      [] OTHER -> "other"

Returned(ds) == { <<RuleOf(ds[i]), ds[i].points>> : i \in 1..Len(ds) }

OnePerRule(ds) ==
    \A i, j \in 1..Len(ds) : RuleOf(ds[i]) = RuleOf(ds[j]) => i = j

OkIsFalse(r) == r.present /\ r.ok = FALSE
OkIsNotTrue(r) == ~(r.present /\ r.ok = TRUE)

ToolFails(r, reading) == IF reading = "false" THEN OkIsFalse(r) ELSE OkIsNotTrue(r)

\* The table of the claim; reading says when a tool result triggers its rule:
\* "false" when its ok is false, "not true" when its ok is false or missing.
Table(s, reading) ==
    (IF s.host.firewall = "off" THEN {<<"firewall", -30>>} ELSE {}) \cup
    (IF s.host.firewall = "unknown" THEN {<<"firewall", -15>>} ELSE {}) \cup
    (IF s.host.diskEncryption = "off" THEN {<<"diskEncryption", -25>>} ELSE {}) \cup
    (IF s.host.diskEncryption = "unknown" THEN {<<"diskEncryption", -10>>} ELSE {}) \cup
    (IF s.host.autoUpdates = "off" THEN {<<"autoUpdates", -15>>} ELSE {}) \cup
    (IF s.host.autoUpdates = "unknown" THEN {<<"autoUpdates", -5>>} ELSE {}) \cup
    (IF Len(TcpOf(s)) > 5 THEN {<<"ports", -10>>} ELSE {}) \cup
    (IF ToolFails(s.openclaw.securityAudit, reading) THEN {<<"securityAudit", -20>>} ELSE {}) \cup
    (IF ToolFails(s.openclaw.updateStatus, reading) THEN {<<"updateStatus", -5>>} ELSE {})

AllGood(s) ==
    /\ s.host.firewall = "on"
    /\ s.host.diskEncryption = "on"
    /\ s.host.autoUpdates = "on"
    /\ Len(TcpOf(s)) <= 5
    /\ s.openclaw.securityAudit = [present |-> TRUE, ok |-> TRUE]
    /\ s.openclaw.updateStatus = [present |-> TRUE, ok |-> TRUE]

ExactDeductions(reading) ==
    Rendered =>
        /\ Returned(scored.deductions) = Table(snap, reading)
        /\ OnePerRule(scored.deductions)
        /\ AllGood(snap) => (scored.deductions = <<>> /\ scored.score = 100)

\* C2 as stated: the deductions returned are exactly those of the table, where a
\* tool result triggers its rule when its ok is false.
C2_Original == ExactDeductions("false")

\* C2 as amended: the deductions returned are exactly those of the table, where a
\* tool result triggers its rule when its ok is not true (false, or the result is
\* absent from the snapshot); one deduction per rule at most; the all-good
\* snapshot has no deduction and score 100.
C2_ExactDeductions == ExactDeductions("not true")

\* C2 witness: exactly 6 ports (flat -10) with a failed audit, and nothing else.
C2_Witness ==
    /\ Rendered
    /\ Len(TcpOf(snap)) = PortThreshold + 1
    /\ Returned(scored.deductions) = {<<"ports", -10>>, <<"securityAudit", -20>>}

\* C3: the score equals max(0, 100 + sum of the points of the deductions returned
\* with it); firewall off plus autoUpdates off on a good snapshot gives 55.
C3_ScoreIsSum ==
    Rendered =>
        /\ scored.score = Max(0, 100 + SumPoints(scored.deductions))
        /\ ( /\ AllGood([snap EXCEPT !.host.firewall = "on", !.host.autoUpdates = "on"])
             /\ snap.host.firewall = "off"
             /\ snap.host.autoUpdates = "off" ) => scored.score = 55

\* C3 witness: firewall off and autoUpdates off on an otherwise good snapshot.
C3_Witness ==
    /\ Rendered
    /\ snap.host.firewall = "off"
    /\ snap.host.autoUpdates = "off"
    /\ Returned(scored.deductions) = {<<"firewall", -30>>, <<"autoUpdates", -15>>}
    /\ scored.score = 55

IsSortedByPoints(ds) ==
    \A i, j \in 1..Len(ds) : i < j => ds[i].points <= ds[j].points

\* The order in which computeRiskScore evaluates its rules.
RuleRank(r) ==
    CASE r = "firewall" -> 1 [] r = "diskEncryption" -> 2 [] r = "autoUpdates" -> 3
      [] r = "ports" -> 4 [] r = "securityAudit" -> 5 [] r = "updateStatus" -> 6
      [] OTHER -> 7

InRuleOrder(ds) ==
    \A i, j \in 1..Len(ds) : i < j => RuleRank(RuleOf(ds[i])) < RuleRank(RuleOf(ds[j]))

SameDeductions(ds, es) ==
    /\ Len(ds) = Len(es)
    /\ \A i \in 1..Len(ds) :
          Cardinality({j \in 1..Len(ds) : ds[j] = ds[i]}) =
          Cardinality({j \in 1..Len(es) :
                          [reason |-> es[j].reason, points |-> es[j].points] = ds[i]})

\* C4 as stated: the deductions sequence returned by the scorer is sorted
\* ascending by points.
C4_Original == Rendered => IsSortedByPoints(scored.deductions)

\* C4 as amended: the scorer returns its deductions in rule evaluation order; the
\* list the dashboard displays (renderRemediations) holds the same deductions
\* sorted ascending by points, most severe first.
C4_DisplaySorted ==
    Rendered =>
        /\ InRuleOrder(scored.deductions)
        /\ IsSortedByPoints(shown)
        /\ SameDeductions(scored.deductions, shown)

\* C4 witness: the scorer's own order is not by points and the display's is.
C4_Witness ==
    /\ Rendered
    /\ Len(scored.deductions) >= 3
    /\ ~IsSortedByPoints(scored.deductions)
    /\ IsSortedByPoints(shown)

(***************************************************************************)
(* Claims about the regression rules (checked under SpecMonitor).          *)
(***************************************************************************)
Compared == pc = "done" /\ Len(runs) = 2
Latest == runs[1]
Previous == runs[2]

\* the regressions reported on one field
On(fieldName) ==
    { i \in 1..Len(alert.regressions) : alert.regressions[i].field = fieldName }

SignalClaim(fieldName, prevState, latestState, sev) ==
    IF prevState = "on" /\ latestState \in {"off", "unknown", "absent"}
    THEN /\ Cardinality(On(fieldName)) = 1
         /\ \A i \in On(fieldName) : alert.regressions[i].severity = sev
    ELSE On(fieldName) = {}

\* C5: for host.firewall, host.diskEncryption and host.autoUpdates there is exactly
\* one regression on the field (severity high, high, medium) when the previous
\* state is on and the latest is off, unknown or absent, and none on that field
\* whenever the previous state is not on.
C5_SignalRegressions ==
    Compared =>
        /\ SignalClaim("host.firewall", Previous.host.firewall,
                       Latest.host.firewall, "high")
        /\ SignalClaim("host.diskEncryption", Previous.host.diskEncryption,
                       Latest.host.diskEncryption, "high")
        /\ SignalClaim("host.autoUpdates", Previous.host.autoUpdates,
                       Latest.host.autoUpdates, "medium")

\* C5 witness: the firewall left on (record now absent), disk encryption went
\* from off to unknown, auto-updates left on: two regressions, none on the disk.
C5_Witness ==
    /\ Compared
    /\ Previous.host.firewall = "on" /\ Latest.host.firewall = "absent"
    /\ Previous.host.diskEncryption = "off" /\ Latest.host.diskEncryption = "unknown"
    /\ Previous.host.autoUpdates = "on" /\ Latest.host.autoUpdates = "off"
    /\ Cardinality(On("host.firewall")) = 1
    /\ On("host.diskEncryption") = {}
    /\ Cardinality(On("host.autoUpdates")) = 1

PortNumbers(s) == { TcpOf(s)[i].port : i \in 1..Len(TcpOf(s)) }

NewlyObserved == PortNumbers(Latest) \ PortNumbers(Previous)

\* the text of a list of port numbers
RECURSIVE Listing(_)
Listing(q) ==
    IF Len(q) = 0 THEN ""
    ELSE IF Len(q) = 1 THEN ToString(q[1])
         ELSE Listing(SubSeq(q, 1, Len(q) - 1)) \o ", " \o ToString(q[Len(q)])

\* the enumerations without repetition of a set of port numbers
Enumerations(S) ==
    { q \in [1..Cardinality(S) -> S] : \A i, j \in DOMAIN q : q[i] = q[j] => i = j }

Ports(list) == [present |-> TRUE, tcp |-> [i \in 1..Len(list) |-> ListeningPort(list[i])]]

\* C6: a medium host.listening.tcp regression is reported exactly when some port of
\* the latest run is absent from the previous run; it carries every such port and
\* the port counts before and after ({80} then {80, 4444}: new 4444, 1 then 2);
\* when ports were only removed there is no port regression.
C6_NewPorts ==
    Compared =>
        /\ (On("host.listening.tcp") # {}) <=> (NewlyObserved # {})
        /\ Cardinality(On("host.listening.tcp")) <= 1
        /\ \A i \in On("host.listening.tcp") :
              LET r == alert.regressions[i]
              IN  /\ r.severity = "medium"
                  /\ r.was = ToString(Len(TcpOf(Previous))) \o " ports"
                  /\ \E q \in Enumerations(NewlyObserved) :
                        r.now = ToString(Len(TcpOf(Latest))) \o " ports (new: "
                                   \o Listing(q) \o ")"
        /\ (Previous.host.listening = Ports(<<80>>)
              /\ Latest.host.listening = Ports(<<80, 4444>>)) =>
                 \E i \in On("host.listening.tcp") :
                     /\ alert.regressions[i].was = "1 ports"
                     /\ alert.regressions[i].now = "2 ports (new: 4444)"
        /\ PortNumbers(Latest) \subseteq PortNumbers(Previous) =>
              On("host.listening.tcp") = {}

\* C6 witness: previous {80}, latest {80, 4444}, and the regression reported.
C6_Witness ==
    /\ Compared
    /\ Previous.host.listening = Ports(<<80>>)
    /\ Latest.host.listening = Ports(<<80, 4444>>)
    /\ \E i \in On("host.listening.tcp") :
          alert.regressions[i].now = "2 ports (new: 4444)"

\* C6 second case reached: a port was removed, none added, nothing reported.
C6_RemovalReached ==
    /\ Compared
    /\ PortNumbers(Latest) # PortNumbers(Previous)
    /\ PortNumbers(Latest) \subseteq PortNumbers(Previous)
    /\ On("host.listening.tcp") = {}

AuditClaim(reading) ==
    Compared =>
        /\ (On("openclaw.securityAudit") # {}) <=>
              ( /\ Previous.openclaw.securityAudit.present
                /\ Previous.openclaw.securityAudit.ok = TRUE
                /\ ToolFails(Latest.openclaw.securityAudit, reading) )
        /\ Cardinality(On("openclaw.securityAudit")) <= 1
        /\ \A i \in On("openclaw.securityAudit") :
              alert.regressions[i].severity = "high"
        /\ ( ~OkOf(Previous.openclaw.securityAudit)
             /\ OkOf(Latest.openclaw.securityAudit) ) =>
                On("openclaw.securityAudit") = {}

\* C7 as stated: a high openclaw.securityAudit regression is reported exactly when
\* the previous run's securityAudit.ok is true and the latest run's is false.
C7_Original == AuditClaim("false")

\* C7 as amended: a high openclaw.securityAudit regression is reported exactly when
\* the previous run's securityAudit.ok is true and the latest run's is not true
\* (false, or the audit result is absent from the latest snapshot); the inverse
\* transition never produces one.
C7_AuditRegression == AuditClaim("not true")

\* C7 witness: the audit went from ok to failed and the regression is reported.
C7_Witness ==
    /\ Compared
    /\ Previous.openclaw.securityAudit = [present |-> TRUE, ok |-> TRUE]
    /\ Latest.openclaw.securityAudit = [present |-> TRUE, ok |-> FALSE]
    /\ Cardinality(On("openclaw.securityAudit")) = 1

(***************************************************************************)
(* Claims about the structural diff (checked under SpecDiff).              *)
(***************************************************************************)
Diffed == pc \in {"diffed", "both"}

\* C8: diffDeep(a, a) is the empty sequence for every tree a (mappings, arrays,
\* scalars and null at any depth).
C8_DiffSelfEmpty == (Diffed /\ snapA = snapB) => changes = <<>>

\* C8 witness: a tree holding an array with null and a mapping in it, and a nested
\* mapping, diffed against itself.
C8_Witness ==
    /\ Diffed
    /\ snapA = Obj2("a", Arr(<<Null, Obj1("a", Num(1))>>), "b", Obj1("a", Num(1)))
    /\ snapB = snapA
    /\ changes = <<>>

PathsOfType(entries, type) ==
    { entries[i].path : i \in { j \in 1..Len(entries) : entries[j].type = type } }

\* C9: the paths diffDeep(a, b) reports as added are those diffDeep(b, a) reports
\* as removed, and the paths it reports as removed are those diffDeep(b, a)
\* reports as added.
C9_AddedRemovedSwap ==
    pc = "both" =>
        /\ PathsOfType(changes, "added") = PathsOfType(reverse, "removed")
        /\ PathsOfType(changes, "removed") = PathsOfType(reverse, "added")

\* C9 witness: both runs done, with keys added, removed and changed between them.
C9_Witness ==
    /\ pc = "both"
    /\ PathsOfType(changes, "added") # {}
    /\ PathsOfType(changes, "removed") # {}
    /\ PathsOfType(changes, "changed") # {}
    /\ PathsOfType(reverse, "removed") = PathsOfType(changes, "added")

\* Places of a tree: the sequences of keys and array indices that lead to a
\* value of it (the empty sequence leads to the tree itself).
RECURSIVE At(_, _)
At(x, ks) == IF ks = <<>> THEN x ELSE At(Get(x, Head(ks)), Tail(ks))

RECURSIVE PlacesOf(_)
PlacesOf(x) ==
    { <<>> } \cup
    UNION { { <<KeysOf(x)[i]>> \o rest : rest \in PlacesOf(Get(x, KeysOf(x)[i])) } :
              i \in 1..Len(KeysOf(x)) }

RECURSIVE PathText(_)
PathText(ks) ==
    IF Len(ks) = 1 THEN ks[1]
    ELSE PathText(SubSeq(ks, 1, Len(ks) - 1)) \o "." \o ks[Len(ks)]

EntriesAt(p) == { i \in 1..Len(changes) : changes[i].path = p }

\* the places where both trees hold an array
ArrayPairs ==
    { ks \in (PlacesOf(snapA) \cap PlacesOf(snapB)) \ { <<>> } :
        At(snapA, ks).t = "array" /\ At(snapB, ks).t = "array" }

\* the places below a place where either tree holds something
Below(ks) ==
    { ks \o rest : rest \in (PlacesOf(At(snapA, ks)) \cup PlacesOf(At(snapB, ks))) \ { <<>> } }

\* C10 as stated: where a key holds an array in both trees and the two arrays are
\* not equal by serialization, there is exactly one changed entry at the key's own
\* path, carrying the two whole arrays, and no entry at any path below the key.
C10_Original ==
    Diffed =>
        \A ks \in ArrayPairs :
            Stringify(At(snapA, ks)) # Stringify(At(snapB, ks)) =>
                /\ Cardinality(EntriesAt(PathText(ks))) = 1
                /\ \A i \in EntriesAt(PathText(ks)) :
                      /\ changes[i].type = "changed"
                      /\ changes[i].oldValue = At(snapA, ks)
                      /\ changes[i].newValue = At(snapB, ks)
                /\ \A below \in Below(ks) : EntriesAt(PathText(below)) = {}

IndexClaim(ks, index) ==
    LET ea == Get(At(snapA, ks), index)
        eb == Get(At(snapB, ks), index)
        at == EntriesAt(PathText(Append(ks, index)))
        Only(type, old, new) ==
            /\ Cardinality(at) = 1
            /\ \A i \in at : /\ changes[i].type = type
                             /\ changes[i].oldValue = old
                             /\ changes[i].newValue = new
    IN  IF IsUndef(ea) /\ IsUndef(eb) THEN at = {}
        ELSE IF IsUndef(ea) THEN Only("added", Undef, eb)
        ELSE IF IsUndef(eb) THEN Only("removed", ea, Undef)
        ELSE IF IsObject(ea) /\ IsObject(eb) THEN at = {}
        ELSE IF Stringify(ea) # Stringify(eb) THEN Only("changed", ea, eb)
        ELSE at = {}

\* C10 as amended: arrays are not opaque leaves.  Where a key holds an array in
\* both trees diffDeep descends into them index by index: there is no entry at the
\* key's own path, and each index is reported at the path key.index: added or
\* removed when only one array has it, changed (carrying the two elements) when
\* both have it, the elements are not both containers and they differ by
\* serialization, and not at all otherwise.
C10_ArraysByIndex ==
    Diffed =>
        \A ks \in ArrayPairs :
            /\ EntriesAt(PathText(ks)) = {}
            /\ \A i \in 0..MaxArrayLen : IndexClaim(ks, ToString(i))

\* C10 witness: key a holds [1, 2] in one tree and [1, null, ...] or the like in the
\* other: one changed entry at a.1, none at a.
C10_Witness ==
    /\ Diffed
    /\ <<"a">> \in ArrayPairs
    /\ Len(At(snapA, <<"a">>).v) = 2
    /\ Stringify(At(snapA, <<"a">>)) # Stringify(At(snapB, <<"a">>))
    /\ \E i \in EntriesAt("a.1") : changes[i].type = "changed"
    /\ EntriesAt("a") = {}

(***************************************************************************)
(* Claims about the port table parsers (checked under SpecParse).          *)
(***************************************************************************)
Parsed == pc \in {"lsof", "ss"}

RawLines == SplitLines(raw)

\* the line is one the format calls a header
IsHeaderLine(line) ==
    IF pc = "lsof" THEN StartsWith(line, "COMMAND")
    ELSE StartsWith(line, "State") \/ StartsWith(line, "Netid")

\* the fields are fewer than the format needs
TooFew(parts) == Len(parts) < (IF pc = "lsof" THEN 9 ELSE 5)

\* the line has fewer white-space separated fields than the format needs
IsShortLine(line) == TooFew(Fields(line))

\* the field in which the format looks for the port
AddressField(parts) == IF pc = "lsof" THEN parts[Len(parts)] ELSE parts[4]

\* the line carries a port number
CarriesPort(line) ==
    LET parts == Fields(line)
    IN  /\ ~IsHeaderLine(line)
        /\ ~TooFew(parts)
        /\ MatchPort(AddressField(parts)).matched

\* the record built from a line that carries a port number
RecordOf(line) ==
    LET parts == Fields(line)
        port == DecimalValue(MatchPort(AddressField(parts)).digits, 0)
        proc == MatchProcess(JoinFrom(parts, 6))
    IN  IF pc = "lsof" THEN PortRecord(port, PidOrNull(parts[2]), parts[1])
        ELSE IF proc.matched THEN PortRecord(port, parseInt(proc.digits), proc.name)
        ELSE PortRecord(port, Null, "unknown")

\* the records of the lines that carry a port number, in line order
Carried ==
    LET lines == SelectSeq(RawLines, CarriesPort)
    IN  [i \in 1..Len(lines) |-> RecordOf(lines[i])]

\* the first place of a port number among the records
FirstLine(records, port) == CHOOSE i \in 1..Len(records) :
    /\ records[i].port = port
    /\ \A j \in 1..(i - 1) : records[j].port # port

\* C11: the parsers return no port number twice; of several lines with the
\* same port number the record of the first is kept, whatever pid or process
\* later lines name, and the records are in the order of first occurrence.
C11_FirstWins ==
    Parsed =>
        LET carried == Carried
            first == [k \in 1..Len(ports) |-> FirstLine(carried, ports[k].port)]
        IN  /\ \A k, l \in 1..Len(ports) : k # l => ports[k].port # ports[l].port
            /\ { ports[k].port : k \in 1..Len(ports) }
                   = { carried[i].port : i \in 1..Len(carried) }
            /\ \A k \in 1..Len(ports) : ports[k] = carried[first[k]]
            /\ \A k, l \in 1..Len(ports) : k < l => first[k] < first[l]

\* C11 witness: two lines carry one port number under different processes and
\* a line with another port number follows them.
C11_Witness ==
    /\ Parsed
    /\ Len(ports) = 2
    /\ LET carried == Carried
       IN  \E i, j, k \in 1..Len(carried) :
              /\ i < j /\ j < k
              /\ carried[i].port = carried[j].port
              /\ carried[i].process # carried[j].process
              /\ carried[i].pid # carried[j].pid
              /\ carried[k].port # carried[i].port

\* C12 as stated: every returned port lies in 1..65535.
C12_Original == Parsed => \A k \in 1..Len(ports) : ports[k].port \in 1..65535

\* C12: every returned port is a natural number, the decimal value of the
\* digits after the last colon of its line's address field, whatever that
\* value is (0 and values above 65535 included): the returned port numbers
\* are exactly the ones the lines carry.
C12_PortIsDigitValue ==
    Parsed =>
        LET carried == Carried
        IN  /\ \A k \in 1..Len(ports) : ports[k].port \in Nat
            /\ { ports[k].port : k \in 1..Len(ports) }
                   = { carried[i].port : i \in 1..Len(carried) }

\* C12 witness: a listing with port 0 next to a port in range; both are
\* returned.
C12_Witness ==
    /\ pc = "lsof"
    /\ \E k \in 1..Len(ports) : ports[k].port = 0
    /\ \E k \in 1..Len(ports) : ports[k].port \in 1..65535

\* the text without its header lines and its short lines
WithoutSkipped ==
    LET Kept(line) == ~IsHeaderLine(line) /\ ~IsShortLine(line)
    IN  JoinLines(SelectSeq(RawLines, Kept))

\* C13: the parsers always return a sequence: the empty one for empty or
\* header-only text, and otherwise the one they return for the text without
\* its header lines and its lines of too few fields.
C13_SkipsMalformed ==
    Parsed =>
        LET lines == RawLines
        IN  /\ \A k \in 1..Len(ports) :
                   /\ ports[k].port \in Nat
                   /\ ports[k].pid = Null \/ ports[k].pid.t = "number"
                   /\ ports[k].process \in STRING
            /\ (\A i \in 1..Len(lines) : lines[i] = "" \/ IsHeaderLine(lines[i]))
                   => ports = <<>>
            /\ ports = (IF pc = "lsof" THEN parseLsofPorts(WithoutSkipped)
                        ELSE parseSsPorts(WithoutSkipped))

\* C13 witness: a header line and a short line ending in a port stand before
\* a full line, and the full line's record is the only one returned.
C13_Witness ==
    /\ Parsed
    /\ LET lines == RawLines
       IN  /\ Len(lines) = 3
           /\ IsHeaderLine(lines[1])
           /\ IsShortLine(lines[2])
           /\ MatchPort(Fields(lines[2])[Len(Fields(lines[2]))]).matched
           /\ CarriesPort(lines[3])
           /\ ports = <<RecordOf(lines[3])>>

(***************************************************************************)
(* Claims about collection (checked under SpecCollect, the one about       *)
(* completion under SpecCollectFair).                                      *)
(***************************************************************************)
Collected == pc = "returned"

SignalKeys == {"firewall", "diskEncryption", "autoUpdates", "backups"}

\* the invocations of the platform that stand behind one of the four signals
SignalCommands ==
    { HostCommands(platform)[n] : n \in
        { m \in 1..Len(HostCommands(platform)) : HostCommands(platform)[m].key \in SignalKeys } }

\* the signal invocations that have settled and whose slot is written
SettledSignals == { c \in SignalCommands : c.key \in DOMAIN host }

\* C14: whenever the invocation behind a signal failed, the signal's state is
\* unknown, whatever the error text says.
C14_FailedIsUnknown ==
    \A c \in SettledSignals :
        children[c.cmd].settled = "rejected" => host[c.key].state = "unknown"

\* C14 witness: on darwin the firewall invocation failed with an error text
\* that the `enabled` pattern matches, and the snapshot holds unknown.
C14_Witness ==
    /\ Collected
    /\ platform = "darwin"
    /\ children["socketfilterfw"].settled = "rejected"
    /\ Test("enabled", children["socketfilterfw"].message)
    /\ snapshot.host["firewall"].raw = children["socketfilterfw"].message
    /\ snapshot.host["firewall"].state = "unknown"

\* the patterns the rule of an invocation knows
KnownPatterns(cmd) ==
    CASE cmd = "socketfilterfw" -> {"enabled", "disabled"}
      [] cmd = "fdesetup" -> {"FileVault is On", "Off"}
      [] cmd = "softwareupdate" -> {"on", "off"}
      [] cmd = "tmutil" -> {"Running"}
      [] cmd = "ufw" -> {"Status: active", "inactive"}
      [] cmd = "lsblk" -> {}
      [] cmd = "systemctl" -> {"enabled"}

\* C15: whenever the invocation behind a signal succeeded and its output
\* matches none of the signal's patterns, the signal's state is unknown.
C15_UnmatchedIsUnknown ==
    \A c \in SettledSignals :
        (/\ children[c.cmd].settled = "resolved"
         /\ \A p \in KnownPatterns(c.cmd) : ~Test(p, host[c.key].raw))
            => host[c.key].state = "unknown"

\* C16 as stated: every snapshot carries all four signals with a state among
\* on, off, unknown.
C16_Original ==
    Collected =>
        \A key \in SignalKeys :
            /\ key \in DOMAIN snapshot.host
            /\ snapshot.host[key].state \in SignalStates

\* C16: every snapshot carries firewall, diskEncryption and autoUpdates with a
\* state among on, off, unknown; it carries backups (on or unknown) on darwin
\* only, and on every other platform it has no backups entry and its
\* diskEncryption is unknown.
C16_SignalsCarried ==
    Collected =>
        /\ \A key \in SignalKeys \ {"backups"} :
              /\ key \in DOMAIN snapshot.host
              /\ snapshot.host[key].state \in SignalStates
        /\ platform = "darwin" =>
              /\ "backups" \in DOMAIN snapshot.host
              /\ snapshot.host["backups"].state \in {"on", "unknown"}
        /\ platform # "darwin" =>
              /\ "backups" \notin DOMAIN snapshot.host
              /\ snapshot.host["diskEncryption"].state = "unknown"

\* C16 witness: a snapshot collected on a platform that is neither darwin nor
\* linux, with the firewall read as on and no backups entry.
C16_Witness ==
    /\ Collected
    /\ platform = "win32"
    /\ snapshot.host["firewall"].state = "on"
    /\ "backups" \notin DOMAIN snapshot.host

\* every invocation of the collection has been started and has failed
AllRejected ==
    /\ DOMAIN children = { OpenClawCommands[n].cmd : n \in 1..Len(OpenClawCommands) }
          \cup { HostCommands(platform)[n].cmd : n \in 1..Len(HostCommands(platform)) }
    /\ \A cmd \in DOMAIN children : children[cmd].settled = "rejected"

\* C20: collectAll returns in every run, whichever invocations fail; in the
\* snapshot it returns every failed tool invocation is a result with
\* ok = false, every failed signal invocation a state unknown and a failed
\* listing an empty port list.
C20_CollectAllReturns ==
    /\ <>Collected
    /\ [](Collected =>
            /\ \A n \in 1..Len(OpenClawCommands) :
                  LET c == OpenClawCommands[n]
                  IN  children[c.cmd].settled = "rejected"
                          => /\ snapshot.openclaw[c.key].ok = FALSE
                             /\ snapshot.openclaw[c.key].error = children[c.cmd].message
            /\ \A n \in 1..Len(HostCommands(platform)) :
                  LET c == HostCommands(platform)[n]
                  IN  children[c.cmd].settled = "rejected"
                          => IF c.key \in SignalKeys
                             THEN snapshot.host[c.key].state = "unknown"
                             ELSE snapshot.host[c.key].tcp = <<>>)

\* C20 witness: every invocation failed and collectAll returned a snapshot.
C20_Witness ==
    /\ Collected
    /\ AllRejected
    /\ snapshot.collectedAt = "now"

(***************************************************************************)
(* Claims about `ocsec apply` and `ocsec plan` (checked under SpecRemedy). *)
(***************************************************************************)
Applying == pc \in {"prompt", "running", "done"}

Planned == pc = "planned"

\* what the user said, without surrounding blanks and in lower case
Said(answer) == Lower(Trim(answer))

Confirms(answer) == Said(answer) \in {"y", "yes"}

Aborts(answer) == Said(answer) \in {"abort", "a"}

\* C17: apply has executed a command only for a step whose own prompt was
\* answered y or yes, and then that step's command, once; a step answered
\* otherwise has executed nothing.
C17_OnlyConfirmedRuns ==
    Applying =>
        /\ \A k \in 1..Len(executed) :
              /\ executed[k].command = steps[executed[k].step].command
              /\ \E a \in 1..Len(asked) :
                    /\ asked[a].step = executed[k].step
                    /\ Confirms(asked[a].answer)
        /\ \A a \in 1..Len(asked) :
              ~Confirms(asked[a].answer)
                  => \A k \in 1..Len(executed) : executed[k].step # asked[a].step
        /\ \A k, l \in 1..Len(executed) : k # l => executed[k].step # executed[l].step
        /\ \A a, b \in 1..Len(asked) : a # b => asked[a].step # asked[b].step

\* C17 witness: of three steps the first is declined, the second confirmed
\* with " YES " and the third answered with empty input; only the second
\* step's command has run.
C17_Witness ==
    /\ pc = "done"
    /\ Len(steps) = 3
    /\ Len(asked) = 3
    /\ asked[1].answer = "n"
    /\ asked[2].answer = " YES "
    /\ asked[3].answer = ""
    /\ Len(executed) = 1
    /\ executed[1].step = 2
    /\ executed[1].command = steps[2].command

\* the last answer given, if any, was an abort
Aborted == Len(asked) > 0 /\ Aborts(asked[Len(asked)].answer)

\* C18: once a prompt is answered abort (or a), apply executes nothing and
\* prompts nothing from then on; an answer that neither aborts nor confirms
\* executes nothing and moves the loop to the next step.
C18_AbortStops ==
    [][ /\ Aborted => (executed' = executed /\ asked' = asked)
        /\ (asked' # asked /\ Aborts(asked'[Len(asked')].answer))
              => (executed' = executed /\ pc' = "done")
        /\ (asked' # asked /\ ~Aborts(asked'[Len(asked')].answer)
                           /\ ~Confirms(asked'[Len(asked')].answer))
              => /\ executed' = executed
                 /\ stepIndex' = stepIndex + 1
                 /\ pc' = (IF stepIndex' < Len(steps) THEN "prompt" ELSE "done")
                 /\ asked'[Len(asked')].step = stepIndex + 1 ]_vars

\* C18 witness: of three steps the first is skipped and the second answered
\* "A": apply has ended with nothing executed and the third step never asked.
C18_Witness ==
    /\ pc = "done"
    /\ Len(steps) = 3
    /\ Len(asked) = 2
    /\ asked[1].answer = "n"
    /\ asked[2].answer = "A"
    /\ asked[2].step = 2
    /\ executed = <<>>
    /\ Len(rollbackLog) = 2

PlanSignals == <<"firewall", "autoUpdates", "diskEncryption">>

\* the title under which plan lists the step of a signal
PlanTitle(signal) ==
    CASE signal = "firewall" -> "Enable host firewall (recommended)"
      [] signal = "autoUpdates" -> "Enable automatic OS updates"
      [] signal = "diskEncryption" -> "Enable disk encryption"

\* the places of a signal's step in the printed plan
PlacesInPlan(signal) == { k \in 1..Len(steps) : steps[k].title = PlanTitle(signal) }

\* the command and rollback plan prints for a signal on this platform
PlanCommands(signal) ==
    CASE signal = "firewall" ->
            IF platform = "darwin"
            THEN <<"sudo /usr/libexec/ApplicationFirewall/socketfilterfw --setglobalstate on",
                   "sudo /usr/libexec/ApplicationFirewall/socketfilterfw --setglobalstate off">>
            ELSE <<"sudo ufw enable", "sudo ufw disable">>
      [] signal = "autoUpdates" ->
            IF platform = "darwin"
            THEN <<"sudo softwareupdate --schedule on", "sudo softwareupdate --schedule off">>
            ELSE <<"sudo dpkg-reconfigure -plow unattended-upgrades",
                   "sudo dpkg-reconfigure unattended-upgrades">>
      [] signal = "diskEncryption" ->
            IF platform = "darwin"
            THEN <<"sudo fdesetup enable", "sudo fdesetup disable">>
            ELSE <<"echo \"LUKS encryption must be configured manually for existing volumes\"",
                   "echo \"LUKS decryption requires manual steps\"">>

\* C19 as stated: a signal that is off or unknown has a step with a command
\* and a rollback, a signal that is on has none, and the steps are in the
\* order firewall, autoUpdates, diskEncryption.
C19_Original ==
    Planned =>
        /\ \A n \in 1..3 :
              /\ StateOf(snapshot, PlanSignals[n]) \in {"off", "unknown"}
                    => \E k \in PlacesInPlan(PlanSignals[n]) :
                          steps[k].command # "" /\ steps[k].rollback # ""
              /\ StateOf(snapshot, PlanSignals[n]) = "on"
                    => PlacesInPlan(PlanSignals[n]) = {}
        /\ \A m, n \in 1..3 :
              m < n => \A k \in PlacesInPlan(PlanSignals[m]), l \in PlacesInPlan(PlanSignals[n]) :
                          k < l

\* C19: the plan starts with the OpenClaw safe-fix step; after it a signal has
\* a step, with the platform's command and rollback, exactly when its state
\* is off (not when it is unknown, on or missing); the steps are numbered
\* from 1 in the order firewall, autoUpdates, diskEncryption.
C19_PlanForOff ==
    Planned =>
        /\ steps[1].command = "openclaw security audit --fix"
        /\ steps[1].rollback # ""
        /\ \A n \in 1..3 :
              /\ Cardinality(PlacesInPlan(PlanSignals[n]))
                    = (IF StateOf(snapshot, PlanSignals[n]) = "off" THEN 1 ELSE 0)
              /\ \A k \in PlacesInPlan(PlanSignals[n]) :
                    /\ k > 1
                    /\ steps[k].command = PlanCommands(PlanSignals[n])[1]
                    /\ steps[k].rollback = PlanCommands(PlanSignals[n])[2]
        /\ \A m, n \in 1..3 :
              m < n => \A k \in PlacesInPlan(PlanSignals[m]), l \in PlacesInPlan(PlanSignals[n]) :
                          k < l
        /\ \A k \in 1..Len(steps) : steps[k].n = k
        /\ Len(steps) = 1 + Cardinality({ n \in 1..3 : StateOf(snapshot, PlanSignals[n]) = "off" })

\* C19 witness: a plan for a darwin snapshot with the firewall unknown, the
\* automatic updates off and the disk encryption on: two steps, the second
\* for the automatic updates.
C19_Witness ==
    /\ Planned
    /\ platform = "darwin"
    /\ StateOf(snapshot, "firewall") = "unknown"
    /\ StateOf(snapshot, "autoUpdates") = "off"
    /\ StateOf(snapshot, "diskEncryption") = "on"
    /\ Len(steps) = 2
    /\ steps[2].title = PlanTitle("autoUpdates")

(***************************************************************************)
(* Claims about the interleaving of collectOpenClaw and collectHostSignals *)
(* (checked under SpecCollect).                                            *)
(***************************************************************************)
\* the keys of a list of invocations
KeysIn(commands) == { commands[n].key : n \in 1..Len(commands) }

\* the keys of a list of invocations whose slots are still to be written
Unfilled(commands, slots) == KeysIn(commands) \ DOMAIN slots

\* the next invocation a gathering function awaits: the first of its list
\* whose slot is not written
Awaited(commands, slots) ==
    commands[CHOOSE n \in 1..Len(commands) :
                /\ commands[n].key \notin DOMAIN slots
                /\ \A m \in 1..(n - 1) : commands[m].key \in DOMAIN slots]

\* the keys whose invocation has been made and has not settled: a gathering
\* function makes an invocation when it reaches its `await run(...)`
InFlight ==
    (IF Unfilled(HostCommands(platform), host) = {} THEN {}
     ELSE {Awaited(HostCommands(platform), host).key})
    \cup (IF Unfilled(OpenClawCommands, openclaw) = {} THEN {}
          ELSE {Awaited(OpenClawCommands, openclaw).key})

\* C21 as stated: no invocation waits for another one to settle, so every
\* invocation whose slot is not written is in flight.
C21_Original ==
    pc = "collecting" =>
        Unfilled(HostCommands(platform), host) \cup Unfilled(OpenClawCommands, openclaw)
            \subseteq InFlight

\* C21: a step of the collection writes one slot, the slot of the invocation
\* its gathering function awaits, as a function of that invocation's outcome
\* alone, and leaves every slot written before as it is; an invocation that
\* fails does not keep the next one of its function from being made; neither
\* gathering function waits for the other, while inside one function the
\* invocations are made one after the other in declaration order; and the
\* snapshot is assembled in a step of its own from the slots as they stand
\* once both functions have written all of theirs.
C21_IndependentSlots ==
    [][ /\ pc = "collecting" /\ Unfilled(HostCommands(platform), host) # {}
            => ENABLED HostStep
        /\ pc = "collecting" /\ Unfilled(OpenClawCommands, openclaw) # {}
            => ENABLED OpenClawStep
        /\ host' # host =>
              LET c == Awaited(HostCommands(platform), host)
              IN  /\ DOMAIN host' = DOMAIN host \cup {c.key}
                  /\ \A key \in DOMAIN host : host'[key] = host[key]
                  /\ host'[c.key] = HostSlot(c.cmd, run(children'[c.cmd]))
                  /\ openclaw' = openclaw /\ snapshot' = snapshot
        /\ openclaw' # openclaw =>
              LET c == Awaited(OpenClawCommands, openclaw)
              IN  /\ DOMAIN openclaw' = DOMAIN openclaw \cup {c.key}
                  /\ \A key \in DOMAIN openclaw : openclaw'[key] = openclaw[key]
                  /\ openclaw'[c.key] = (IF c.key = "securityAudit"
                                         THEN runJson(children'[c.cmd])
                                         ELSE run(children'[c.cmd]))
                  /\ host' = host /\ snapshot' = snapshot
        /\ snapshot' # snapshot =>
              /\ Unfilled(HostCommands(platform), host) = {}
              /\ Unfilled(OpenClawCommands, openclaw) = {}
              /\ snapshot' = [collectedAt |-> "now", openclaw |-> openclaw, host |-> host]
              /\ host' = host /\ openclaw' = openclaw
      ]_vars

\* C21 witness: the listing and the first tool invocation failed, the
\* invocations after them were made and succeeded, and the snapshot holds the
\* slots of all of them.
C21_Witness ==
    /\ Collected
    /\ children[HostCommands(platform)[1].cmd].settled = "rejected"
    /\ children[HostCommands(platform)[2].cmd].settled = "resolved"
    /\ snapshot.host["firewall"].state = "on"
    /\ children["openclaw security audit"].settled = "rejected"
    /\ snapshot.openclaw["updateStatus"].ok
    /\ snapshot.host = host /\ snapshot.openclaw = openclaw

(***************************************************************************)
(* Claims about the run store (checked under SpecStore).                   *)
(***************************************************************************)
\* the day an ISO date names
DayOf(text) == CHOOSE d \in Days : IsoDate(d) = text

\* JSON.parse of a text JSON.stringify wrote for a stored snapshot
ParseStored(text) == CHOOSE s \in StoreSnapshots : Stringify(s) = text

\* the places of the table whose row has an id
PlacesOfRun(table, id) == { i \in 1..Len(table) : table[i].id = id }

\* the rows list those of the table collected most recently, latest first
MostRecentFirst(rows, table) ==
    /\ \E f \in [1..Len(rows) -> 1..Len(table)] :
          /\ \A i, j \in 1..Len(rows) : f[i] = f[j] => i = j
          /\ \A i \in 1..Len(rows) : rows[i] = table[f[i]]
          /\ \A k \in (1..Len(table)) \ { f[i] : i \in 1..Len(rows) } :
                \A i \in 1..Len(rows) :
                    DayOf(table[k].collectedAt) <= DayOf(rows[i].collectedAt)
    /\ \A i \in 1..(Len(rows) - 1) :
          DayOf(rows[i].collectedAt) >= DayOf(rows[i + 1].collectedAt)

\* what a call of the store returns and leaves, for listRuns with a limit
\* among `limits`
StoreCall(limits) ==
    /\ \A i \in 1..Len(db) : i \in 1..Len(db') /\ db'[i] = db[i]
    /\ \A i, j \in 1..Len(db) : db[i].id = db[j].id => i = j
    /\ reply'.op = "insertRun" /\ ~reply'.threw =>
          /\ Len(db') = Len(db) + 1
          /\ db'[Len(db')].id = reply'.run.id
          /\ db'[Len(db')].collectedAt = reply'.run.collectedAt
          /\ ParseStored(db'[Len(db')].snapshotJson) = reply'.run.snapshot
    /\ reply'.op = "getRun" =>
          IF PlacesOfRun(db, reply'.id) = {} THEN reply'.row = Undef
          ELSE \E i \in PlacesOfRun(db, reply'.id) : reply'.row = db[i]
    /\ reply'.op = "listRuns" /\ reply'.limit \in limits =>
          /\ Len(reply'.rows) <= reply'.limit
          /\ Len(reply'.rows) = reply'.limit \/ Len(reply'.rows) = Len(db)
          /\ MostRecentFirst(reply'.rows, db)

\* C22 as stated: for every n, listRuns(db, n) returns at most n rows, the
\* most recently collected first; getRun(db, id) returns the row inserted
\* under id, and undefined for an id never inserted.
C22_Original == [][StoreCall(Limits)]_vars

\* C22: after any sequence of insertRun calls with distinct ids, listRuns(db, n)
\* with n >= 0 returns the min(n, number of rows) most recently collected rows,
\* latest first, whatever the order of insertion; getRun(db, id) returns the
\* row inserted under id, its collectedAt and its snapshot (as JSON text that
\* parses back to it) as they were inserted, and undefined for an id never
\* inserted.
C22_StoreReads == [][StoreCall(Limits \cap Nat)]_vars

\* C22 witness: the oldest, the newest and the middle run were inserted in
\* this order, and listRuns(db, 2) returned the newest and the middle one.
C22_Witness ==
    /\ Len(db) = 3
    /\ DayOf(db[1].collectedAt) < DayOf(db[3].collectedAt)
    /\ DayOf(db[3].collectedAt) < DayOf(db[2].collectedAt)
    /\ reply.op = "listRuns"
    /\ reply.limit = 2
    /\ reply.rows = <<db[2], db[3]>>

(***************************************************************************)
(* Claims about run and runJson (checked under SpecCollect).               *)
(***************************************************************************)
\* a CollectorResult of run: ok implies a value, a text; not ok implies an
\* error, a text
RunResultHolds(res) ==
    IF res.ok THEN "value" \in DOMAIN res /\ res.value \in STRING
    ELSE "error" \in DOMAIN res /\ res.error \in STRING

\* a CollectorResult of runJson: ok implies a value, whatever JSON.parse
\* returned (null included); not ok implies an error, a text
RunJsonResultHolds(res) ==
    IF res.ok THEN "value" \in DOMAIN res /\ res.value.t # "undefined"
    ELSE "error" \in DOMAIN res /\ res.error \in STRING

\* C23: whatever way a child process ended (output, empty output, non-zero
\* exit, missing command, timeout, output that is no JSON), the results run
\* and runJson make of it have a value when ok is true and an error when ok
\* is false, and so have the results stored in the snapshot.
C23_ResultWellFormed ==
    /\ \A cmd \in DOMAIN children :
          /\ RunResultHolds(run(children[cmd]))
          /\ RunJsonResultHolds(runJson(children[cmd]))
    /\ "securityAudit" \in DOMAIN openclaw => RunJsonResultHolds(openclaw["securityAudit"])
    /\ \A key \in DOMAIN openclaw \ {"securityAudit"} : RunResultHolds(openclaw[key])

\* C23 witness: the audit printed text that is no JSON, the update check
\* printed nothing that failed, the status command ran into its timeout; the
\* snapshot holds an error for the first and the last and a value for the
\* second.
C23_Witness ==
    /\ Collected
    /\ children["openclaw security audit"] = Resolved("audit: 2 findings", "")
    /\ ~snapshot.openclaw["securityAudit"].ok
    /\ StartsWith(snapshot.openclaw["securityAudit"].error, "Failed to parse JSON")
    /\ snapshot.openclaw["updateStatus"].ok
    /\ snapshot.openclaw["updateStatus"].value = "up to date"
    /\ children["openclaw status"] = Rejected("timed out")
    /\ snapshot.openclaw["statusDeep"] = [ok |-> FALSE, error |-> "timed out"]

\* C23, empty output: the audit printed nothing and its result is ok with the
\* value null.
C23_EmptyOutputReached ==
    /\ Collected
    /\ children["openclaw security audit"] = Resolved("", "")
    /\ snapshot.openclaw["securityAudit"] = [ok |-> TRUE, value |-> Null]

(***************************************************************************)
(* Claims about the derivation of a signal's state (checked under          *)
(* SpecCollect).                                                           *)
(***************************************************************************)
\* the slot collectHostSignals would have written for a signal had its
\* invocation ended as `child`: { state: ..., raw: res.ok ? res.value : res.error }
SlotHad(c, child) == HostSlot(c.cmd, run(child))

\* C24 as stated: whenever another outcome of a signal's invocation leaves the
\* same raw text, it leaves the same state.
C24_Original ==
    \A c \in SettledSignals :
        \A child \in ChildOutcomes(c.cmd) :
            SlotHad(c, child).raw = host[c.key].raw
                => SlotHad(c, child).state = host[c.key].state

\* C24: the state of a signal in the snapshot is a function of the raw text
\* together with whether the invocation succeeded: another outcome of the invocation that
\* succeeds or fails alike and leaves the same raw text leaves the same state,
\* and every failed outcome leaves unknown, whatever its text.
C24_StateFromOkAndRaw ==
    Collected =>
        \A c \in SettledSignals :
            \A child \in ChildOutcomes(c.cmd) :
                LET res == run(child)
                IN  /\ (/\ res.ok = run(children[c.cmd]).ok
                        /\ RawOf(res) = snapshot.host[c.key].raw)
                          => SignalState(c.cmd, res) = snapshot.host[c.key].state
                    /\ ~res.ok => SignalState(c.cmd, res) = "unknown"

\* C24 witness: `ufw status` failed with an error text that a successful run
\* can print; the raw text is the same for both, the state is unknown for the
\* failed run and would be on for the successful one.
C24_Witness ==
    /\ Collected
    /\ children["ufw"] = Rejected("Status: active")
    /\ snapshot.host["firewall"] = [state |-> "unknown", raw |-> "Status: active"]
    /\ Resolved("Status: active", "") \in ChildOutcomes("ufw")
    /\ HostSlot("ufw", run(Resolved("Status: active", "")))
          = [state |-> "on", raw |-> "Status: active"]

(***************************************************************************)
(* Claims about the order of the regressions and about the runs `monitor`  *)
(* compares (checked under SpecMonitor).                                   *)
(***************************************************************************)
\* the place of a field in the order in which the rules are written
FieldRank(fieldName) ==
    CASE fieldName = "host.firewall" -> 1
      [] fieldName = "host.diskEncryption" -> 2
      [] fieldName = "host.autoUpdates" -> 3
      [] fieldName = "host.listening.tcp" -> 4
      [] fieldName = "openclaw.securityAudit" -> 5

\* C25: the regression list of a pair (previous, latest) is the one the rules
\* give for that pair and no other; it has at most one entry per field, and
\* its entries stand in the order firewall, diskEncryption, autoUpdates,
\* listening ports, securityAudit, whatever their severities.
C25_RuleOrder ==
    Compared =>
        /\ \A i, j \in 1..Len(alert.regressions) :
              i < j => FieldRank(alert.regressions[i].field)
                          < FieldRank(alert.regressions[j].field)
        /\ alert.regressions = detectRegressions(Previous, Latest)

\* C25 witness: all five rules fire; the two entries of severity medium stand
\* before the audit's entry of severity high.
C25_Witness ==
    /\ Compared
    /\ [i \in 1..Len(alert.regressions) |-> alert.regressions[i].severity]
          = <<"high", "high", "medium", "medium", "high">>
    /\ [i \in 1..Len(alert.regressions) |-> alert.regressions[i].field]
          = <<"host.firewall", "host.diskEncryption", "host.autoUpdates",
              "host.listening.tcp", "openclaw.securityAudit">>

\* the snapshot stored in a row
SnapshotOf(row) == ReadSnapshot(ParseSnapshot(row.snapshotJson))

\* place i holds a most recently collected row of the table and place j a most
\* recently collected one of the others
TwoMostRecent(table, i, j) ==
    /\ i # j
    /\ \A k \in 1..Len(table) :
          DayOf(table[k].collectedAt) <= DayOf(table[i].collectedAt)
    /\ \A k \in (1..Len(table)) \ {i} :
          DayOf(table[k].collectedAt) <= DayOf(table[j].collectedAt)

C26_InsufficientReached ==
    /\ pc = "done"
    /\ Len(db) = 1
    /\ alert = [alert |-> FALSE, reason |-> "insufficient_runs", regressions |-> <<>>]

(***************************************************************************)
(* Claims about the steps of plan and apply and about the rollback log     *)
(* (checked under SpecRemedy).                                             *)
(***************************************************************************)
\* the commands and rollbacks of a list of steps, in order
Offered(list) ==
    [k \in 1..Len(list) |-> [command |-> list[k].command, rollback |-> list[k].rollback]]

\* C27: for the same snapshot the steps plan prints and the steps apply walks
\* are the same commands with the same rollbacks in the same order.
C27_ApplyWalksPlan ==
    /\ Planned => Offered(steps) = Offered(ApplySteps(snapshot))
    /\ Applying => Offered(steps) = Offered(PlanSteps(snapshot))

\* the entries of the rollback log with a status
WithStatus(status) == { k \in 1..Len(rollbackLog) : rollbackLog[k].status = status }

\* `Applied: ${applied.length}`
SummaryApplied == Cardinality(WithStatus("applied"))

\* `Skipped: ${rollbackLog.length - applied.length}`
SummarySkipped == Len(rollbackLog) - SummaryApplied

\* C28: when apply ends, every step it prompted for stands once in the
\* rollback log, in the order of the prompts, with status applied if the
\* prompt was answered y or yes (whatever the command's exit code) and
\* skipped otherwise; unless a prompt was answered abort every step was
\* prompted for, a failed command included; and Applied + Skipped of the
\* summary is the number of steps prompted for.  While a command runs its
\* step is the one prompted step not yet logged.
C28_EveryPromptLogged ==
    Applying =>
        /\ Len(rollbackLog) = Len(asked) - (IF pc = "running" THEN 1 ELSE 0)
        /\ \A k \in 1..Len(rollbackLog) :
              /\ rollbackLog[k].step = asked[k].step
              /\ rollbackLog[k].step = k
              /\ rollbackLog[k].title = steps[k].title
              /\ rollbackLog[k].rollback = steps[k].rollback
              /\ rollbackLog[k].status
                    = (IF Confirms(asked[k].answer) THEN "applied" ELSE "skipped")
        /\ pc = "done" =>
              /\ SummaryApplied + SummarySkipped = Len(asked)
              /\ (\A k \in 1..Len(asked) : ~Aborts(asked[k].answer))
                    => Len(asked) = Len(steps)

\* C28 witness: the first step was confirmed and its command exited with a
\* code other than 0; it is logged as applied, the second step was prompted
\* for and skipped, and the summary counts one applied and one skipped.
C28_Witness ==
    /\ pc = "done"
    /\ Len(steps) >= 2
    /\ Len(executed) = 1
    /\ executed[1].step = 1
    /\ executed[1].exitCode = 1
    /\ rollbackLog[1].status = "applied"
    /\ Len(asked) = 2
    /\ rollbackLog[2].status = "skipped"
    /\ SummaryApplied = 1
    /\ SummarySkipped = 1

(***************************************************************************)
(* Claim about host signals the snapshot does not hold (checked under      *)
(* Spec).                                                                  *)
(***************************************************************************)
HostSignalKeys == {"firewall", "diskEncryption", "autoUpdates"}

\* the signals whose record or state the snapshot does not hold
AbsentSignals == { key \in HostSignalKeys : snap.host[key] = "absent" }

\* the snapshot with state on for every signal it does not hold
AbsentAsOn ==
    [snap EXCEPT !.host = [key \in DOMAIN snap.host |->
        IF key \in AbsentSignals THEN "on" ELSE snap.host[key]]]

\* the reasons of the deductions a signal can cause
SignalReasons(key) ==
    CASE key = "firewall" -> {"Host firewall is off", "Host firewall state unknown"}
      [] key = "diskEncryption" -> {"Disk encryption is off", "Disk encryption state unknown"}
      [] key = "autoUpdates" -> {"Auto-updates are off", "Auto-updates state unknown"}

\* C29: a host signal whose record or state the snapshot does not hold causes
\* no deduction, and score and deductions are those of the snapshot with that
\* signal on.
C29_AbsentScoresAsOn ==
    Rendered =>
        /\ \A key \in AbsentSignals :
              \A k \in 1..Len(scored.deductions) :
                  scored.deductions[k].reason \notin SignalReasons(key)
        /\ scored = computeRiskScore(AbsentAsOn)

\* C29 witness: the snapshot holds none of the three signals, both tool
\* results are ok and no port listens: the score is 100 with no deduction.
C29_Witness ==
    /\ Rendered
    /\ AbsentSignals = HostSignalKeys
    /\ OkOf(snap.openclaw.securityAudit)
    /\ OkOf(snap.openclaw.updateStatus)
    /\ scored = [score |-> 100, deductions |-> <<>>]

(***************************************************************************)
(* The server: requests to GET / and POST /api/collect over the store.     *)
(* Each handler runs to its `await collectAll()` in one step and from there *)
(* to its response in another, so the handlers of several requests          *)
(* interleave at the await.  requests holds, per request, its route, where  *)
(* its handler stands, its locals (runs, id, snap) and its response.        *)
(***************************************************************************)
Routes == {"/", "/api/collect"}

NewRequest(route) ==
    [route |-> route, at |-> "received", runs |-> <<>>, id |-> "",
     snap |-> Undef, response |-> NoReply]

\* runs.map(r => ({ id: r.id, collectedAt: r.collectedAt }))
RecentRuns(rows) ==
    [i \in 1..Len(rows) |-> [id |-> rows[i].id, collectedAt |-> rows[i].collectedAt]]

\* getRun, JSON.parse and renderDashboard(id, snap, recentRuns)
DashboardResponse(table, id, rows) ==
    [op |-> "dashboard", id |-> id,
     snapshot |-> ParseStored(getRun(table, id).snapshotJson),
     recentRuns |-> RecentRuns(rows)]

\* the days new Date() can give once the table holds its rows
DaysFrom(table) ==
    { day \in Days :
        \A i \in 1..Len(table) : TextCompare(IsoDate(day), table[i].collectedAt) >= 0 }

\* the tables the server can start with
ServerTables ==
    { <<>>, <<RunRow([id |-> RunId(1), collectedAt |-> IsoDate(2), snapshot |-> EmptyObj])>> }

InitServer ==
    /\ pc = "serve"
    /\ ReportIdle
    /\ ParserIdle
    /\ AgentIdle
    /\ RemedyIdle
    /\ db \in ServerTables
    /\ reply = NoReply
    /\ requests = <<>>

\* a request arrives
Receive ==
    /\ pc = "serve"
    /\ Len(db) + Len(requests) < MaxRuns
    /\ \E route \in Routes : requests' = Append(requests, NewRequest(route))
    /\ UNCHANGED <<pc, db, reply>>
    /\ UNCHANGED reportVars
    /\ UNCHANGED parserVars
    /\ UNCHANGED agentVars
    /\ UNCHANGED remedyVars

\* GET /: listRuns, then either the await of collectAll or the response
DashboardList ==
    /\ pc = "serve"
    /\ \E i \in 1..Len(requests) :
          /\ requests[i].route = "/"
          /\ requests[i].at = "received"
          /\ \E rows \in listRuns(db, 10) :
                LET id == IF rows = <<>> THEN "" ELSE rows[1].id
                IN  IF id = ""
                    THEN requests' = [requests EXCEPT ![i].at = "collecting",
                                                      ![i].runs = rows]
                    ELSE requests' = [requests EXCEPT
                             ![i].at = "done", ![i].runs = rows, ![i].id = id,
                             ![i].response = DashboardResponse(db, id, rows)]
    /\ UNCHANGED <<pc, db, reply>>
    /\ UNCHANGED reportVars
    /\ UNCHANGED parserVars
    /\ UNCHANGED agentVars
    /\ UNCHANGED remedyVars

\* GET / after the await: randomUUID, insertRun, listRuns and the response
DashboardInsert ==
    /\ pc = "serve"
    /\ \E i \in 1..Len(requests) :
          /\ requests[i].route = "/"
          /\ requests[i].at = "collecting"
          /\ \E day \in DaysFrom(db), s \in StoreSnapshots :
                LET id == RunId(Len(db) + 1)
                    done == insertRun(db, [id |-> id, collectedAt |-> IsoDate(day),
                                           snapshot |-> s])
                IN  /\ db' = done.table
                    /\ \E rows \in listRuns(done.table, 10) :
                          requests' = [requests EXCEPT
                              ![i].at = "done", ![i].runs = rows, ![i].id = id,
                              ![i].snap = s,
                              ![i].response = DashboardResponse(done.table, id, rows)]
    /\ UNCHANGED <<pc, reply>>
    /\ UNCHANGED reportVars
    /\ UNCHANGED parserVars
    /\ UNCHANGED agentVars
    /\ UNCHANGED remedyVars

\* POST /api/collect up to the await of collectAll
CollectStart ==
    /\ pc = "serve"
    /\ \E i \in 1..Len(requests) :
          /\ requests[i].route = "/api/collect"
          /\ requests[i].at = "received"
          /\ requests' = [requests EXCEPT ![i].at = "collecting"]
    /\ UNCHANGED <<pc, db, reply>>
    /\ UNCHANGED reportVars
    /\ UNCHANGED parserVars
    /\ UNCHANGED agentVars
    /\ UNCHANGED remedyVars

\* POST /api/collect after the await: randomUUID, insertRun and the response
CollectInsert ==
    /\ pc = "serve"
    /\ \E i \in 1..Len(requests) :
          /\ requests[i].route = "/api/collect"
          /\ requests[i].at = "collecting"
          /\ \E day \in DaysFrom(db), s \in StoreSnapshots :
                LET id == RunId(Len(db) + 1)
                    done == insertRun(db, [id |-> id, collectedAt |-> IsoDate(day),
                                           snapshot |-> s])
                IN  /\ db' = done.table
                    /\ requests' = [requests EXCEPT
                           ![i].at = "done", ![i].id = id, ![i].snap = s,
                           ![i].response = [op |-> "collect", id |-> id,
                                            collectedAt |-> IsoDate(day)]]
    /\ UNCHANGED <<pc, reply>>
    /\ UNCHANGED reportVars
    /\ UNCHANGED parserVars
    /\ UNCHANGED agentVars
    /\ UNCHANGED remedyVars

NextServer ==
    Receive \/ DashboardList \/ DashboardInsert \/ CollectStart \/ CollectInsert

SpecServer == InitServer /\ [][NextServer]_vars

(***************************************************************************)
(* Claim about the dashboard's collection (checked under SpecServer).      *)
(***************************************************************************)
Serving == pc = "serve"

RequestsTo(route) == { i \in 1..Len(requests) : requests[i].route = route }

\* the requests whose handler has inserted the run it collected
Inserted(route) ==
    { i \in RequestsTo(route) : requests[i].at = "done" /\ ~IsUndef(requests[i].snap) }

Answered(route) == { i \in RequestsTo(route) : requests[i].at = "done" }

\* every row of the table was inserted by one of the requests
StartedEmpty ==
    \A k \in 1..Len(db) :
        \E i \in Inserted("/") \cup Inserted("/api/collect") : requests[i].id = db[k].id

\* a dashboard request awaits a collection only after listRuns gave it no run
C30_CollectsOnlyWhenEmpty ==
    Serving =>
        \A i \in RequestsTo("/") :
            requests[i].at = "collecting" =>
                requests[i].runs = <<>> /\ requests[i].id = ""

\* every dashboard response renders a run the store holds
C30_RendersStoredRun ==
    Serving =>
        \A i \in Answered("/") :
            /\ HasRun(db, requests[i].response.id)
            /\ requests[i].response.snapshot =
                   ParseStored(getRun(db, requests[i].response.id).snapshotJson)

\* from an empty store the dashboard requests insert at most one run, and
\* exactly one once a dashboard request is answered and nothing else collects
C30_OneAutoCollectedRun ==
    (Serving /\ StartedEmpty) =>
        /\ Cardinality(Inserted("/")) <= 1
        /\ (Answered("/") # {} /\ RequestsTo("/api/collect") = {}) =>
               Cardinality(Inserted("/")) = 1

\* C30: a dashboard request collects only when it finds no run in the store;
\* from an empty store, however the dashboard requests interleave, exactly one
\* run is inserted by them; every dashboard response renders a run of the store.
C30_AutoCollectOnce ==
    /\ C30_CollectsOnlyWhenEmpty
    /\ C30_OneAutoCollectedRun
    /\ C30_RendersStoredRun

\* two dashboard requests have both inserted the run they collected
C30_TwoAutoCollected == Serving /\ StartedEmpty /\ Cardinality(Inserted("/")) = 2

====
